---- MODULE Spec2Model ----
(***************************************************************************)
(* A model of mmos_linter.py: the Microsoft-style markdown linter.         *)
(*                                                                         *)
(* Lines of text are TLA+ strings over an ASCII alphabet; offsets are      *)
(* 0-based as in Python.  Every check of MicrosoftStyleLinter is an        *)
(* operator that appends to the issue list it is given, lint_file runs     *)
(* them in the order of the source and sorts, and main is a state machine  *)
(* over the files named on the command line.                               *)
(***************************************************************************)
EXTENDS Integers, Sequences, FiniteSets, TLC

(***************************************************************************)
(* Bounds of the model.                                                    *)
(***************************************************************************)
MaxLines == 2
MaxArgs == 2
MaxFenceLines == 4

(***************************************************************************)
(* Characters and the str methods the linter uses.                         *)
(***************************************************************************)
BT == SubSeq("`'", 1, 1)
NL == "\n"
LowerAlpha == "abcdefghijklmnopqrstuvwxyz"
UpperAlpha == "ABCDEFGHIJKLMNOPQRSTUVWXYZ"
DigitChars == "0123456789"

CharsOf(s) == {SubSeq(s, i, i) : i \in 1..Len(s)}
LowerSet == CharsOf(LowerAlpha)
UpperSet == CharsOf(UpperAlpha)
DigitSet == CharsOf(DigitChars)
WordSet == LowerSet \cup UpperSet \cup DigitSet \cup {"_"}
SpaceSet == {" ", "\t"}
AnySet == WordSet \cup SpaceSet \cup CharsOf("~#-*+.,!?;:'[]()/") \cup {BT}

Max(a, b) == IF a > b THEN a ELSE b
Min(a, b) == IF a < b THEN a ELSE b
SetMin(S) == CHOOSE x \in S : \A y \in S : x <= y
SetMax(S) == CHOOSE x \in S : \A y \in S : x >= y

\* s[p], or "" when p is outside the string
ch(s, p) == IF p >= 0 /\ p < Len(s) THEN SubSeq(s, p + 1, p + 1) ELSE ""

\* s[a:b] for 0 <= a
slice(s, a, b) == SubSeq(s, Min(a, Len(s)) + 1, Min(b, Len(s)))

\* for k in lo..hi: acc = body(acc, k)
Fold(body(_, _), acc, lo, hi) ==
    LET f[k \in (lo - 1)..hi] == IF k < lo THEN acc ELSE body(f[k - 1], k)
    IN  f[Max(hi, lo - 1)]

LowerOf == [c \in UpperSet |->
              LET i == CHOOSE j \in 1..26 : SubSeq(UpperAlpha, j, j) = c
              IN  SubSeq(LowerAlpha, i, i)]
lower_char(c) == IF c \in UpperSet THEN LowerOf[c] ELSE c

\* str.lower(), one half of the string after the other
lower(s) ==
    LET f[a \in 1..(Len(s) + 1), b \in 0..Len(s)] ==
          IF a > b THEN ""
          ELSE IF a = b THEN lower_char(SubSeq(s, a, a))
          ELSE LET mid == (a + b) \div 2
               IN  f[a, mid] \o f[mid + 1, b]
    IN  f[1, Len(s)]

\* sub occurs in s at offset p
lit_at(s, p, sub) ==
    /\ p >= 0
    /\ p + Len(sub) <= Len(s)
    /\ SubSeq(s, p + 1, p + Len(sub)) = sub

\* str.rfind for str.find: the offset of the last occurrence of sub in s,
\* or -1
rindex_of(s, sub) ==
    LET hits == {p \in 0..(Len(s) - Len(sub)) : lit_at(s, p, sub)}
    IN  IF hits = {} THEN -1 ELSE CHOOSE p \in hits : \A q \in hits : q <= p

\* str.find: the offset of the first occurrence of sub in s, or -1
index_of(s, sub) ==
    LET hits == {p \in 0..(Len(s) - Len(sub)) : lit_at(s, p, sub)}
    IN  IF hits = {} THEN -1 ELSE SetMin(hits)

contains(s, sub) == index_of(s, sub) >= 0
startswith(s, sub) == lit_at(s, 0, sub)
endswith(s, sub) == lit_at(s, Len(s) - Len(sub), sub)
endswith_any(s, subs) == \E sub \in subs : endswith(s, sub)

\* the end of the run of characters of cls that starts at offset p
run_end(s, p, cls) ==
    SetMin({q \in p..Len(s) : ch(s, q) \notin cls})

\* the start of the run of characters of cls that ends at offset p
run_start(s, p, cls) ==
    SetMax({q \in 0..p : ch(s, q - 1) \notin cls})

lstrip(s) == slice(s, run_end(s, 0, SpaceSet), Len(s))
rstrip(s) == slice(s, 0, run_start(s, Len(s), SpaceSet))
strip(s) == lstrip(rstrip(s))

\* str.split(): the maximal runs of non-whitespace characters
split(s) ==
    LET g[from \in 0..Len(s)] ==
          LET p == run_end(s, from, SpaceSet)
              e == run_end(s, p, AnySet \ SpaceSet)
          IN  IF p >= Len(s) THEN <<>> ELSE <<slice(s, p, e)>> \o g[e]
    IN  g[0]

\* str.splitlines() on "\n"-terminated text
splitlines(content) ==
    LET g[p \in 0..Len(content)] ==
          IF p >= Len(content) THEN <<>>
          ELSE LET e == run_end(content, p, AnySet)
               IN  <<slice(content, p, e)>> \o g[Min(e + 1, Len(content))]
    IN  g[0]

(***************************************************************************)
(* The re module, as far as the linter's patterns need it.                 *)
(***************************************************************************)
is_word(c) == c \in WordSet
\* \b at offset p
wb(s, p) == is_word(ch(s, p - 1)) # is_word(ch(s, p))

\* pattern.finditer: m(p) is the end of the match that starts at p, or -1;
\* the result is the sequence of <<start, end>> of the non-overlapping
\* matches, leftmost first
finditer(m(_), s) ==
    LET starts == {p \in 0..Len(s) : m(p) >= 0}
        g[from \in 0..(Len(s) + 1)] ==
          LET rest == {p \in starts : p >= from}
              p == SetMin(rest)
              e == m(p)
          IN  IF rest = {} THEN <<>>
              ELSE <<<<p, e>>>> \o g[IF e > p THEN e ELSE p + 1]
    IN  g[0]

\* pattern.search: the first match, <<start, end>>, or <<-1, -1>>
search(m(_), s) ==
    LET starts == {p \in 0..Len(s) : m(p) >= 0}
    IN  IF starts = {} THEN <<-1, -1>>
        ELSE <<SetMin(starts), m(SetMin(starts))>>

\* the first of the alternatives m(1), ..., m(n) that matches, or -1
first_alternative(m(_), n) ==
    IF \E k \in 1..n : m(k) >= 0
    THEN m(SetMin({k \in 1..n : m(k) >= 0}))
    ELSE -1

\* \b lit \b at offset p of s (lit and s in the same letter case)
word_at(s, p, lit) ==
    IF lit_at(s, p, lit) /\ wb(s, p) /\ wb(s, p + Len(lit))
    THEN p + Len(lit) ELSE -1

\* \b (lit1|lit2|...) \b at offset p: the first alternative that matches
alt_at(s, p, lits) ==
    first_alternative(LAMBDA k : word_at(s, p, lits[k]), Len(lits))

(***************************************************************************)
(* Severity, LintIssue                                                     *)
(***************************************************************************)
ERROR == "error"
\* Severity.WARNING with the value of Severity.ERROR: C12 does not hold
\* of it
warning_as_error == "error"

WARNING == "warning"
INFO == "info"
Severity == {ERROR, WARNING, INFO}

LintIssue(line_num, col, severity, rule, message, line_content, suggestion) ==
    [line_number |-> line_num, column |-> col, severity |-> severity,
     rule |-> rule, message |-> message, line_content |-> line_content,
     suggestion |-> suggestion]

\* for k in lo..hi: the issues that per(k) adds, in order (one half of
\* the range after the other)
FlatMap(per(_), lo, hi) ==
    LET f[a \in lo..(hi + 1), b \in (lo - 1)..hi] ==
          IF a > b THEN <<>>
          ELSE IF a = b THEN per(a)
          ELSE LET mid == (a + b) \div 2
               IN  f[a, mid] \o f[mid + 1, b]
    IN  f[lo, hi]

\* add_issue with the 0-based index of the line for line_number, as if the
\* checks enumerated the lines from 0: C8 does not hold of it
add_issue_from_zero(issues, line_num, col, severity, rule, message, line_content, suggestion) ==
    Append(issues, LintIssue(line_num - 1, col, severity, rule, message,
                             line_content, suggestion))

\* MicrosoftStyleLinter.add_issue: append to self.issues
add_issue(issues, line_num, col, severity, rule, message, line_content, suggestion) ==
    Append(issues, LintIssue(line_num, col, severity, rule, message,
                             line_content, suggestion))

(***************************************************************************)
(* MicrosoftStyleLinter.init_style_rules: the rule catalog.  A dict is a   *)
(* sequence of <<key, value>> in insertion order; "a" or "b" is "a".       *)
(***************************************************************************)
forbidden_phrases ==
    <<<<"please note", "Note:">>,
      <<"please remember", "Remember:">>,
      <<"in order to", "to">>,
      <<"it is recommended", "we recommend">>,
      <<"utilize", "use">>,
      <<"terminate", "end">>,
      <<"initiate", "start">>,
      <<"leverage", "use">>,
      <<"click on", "select">>,
      <<"simply", "">>,
      <<"just", "">>,
      <<"easy", "">>,
      <<"easily", "">>,
      <<"obviously", "">>,
      <<"clearly", "">>,
      <<"basically", "">>,
      <<"actually", "">>,
      <<"very", "">>,
      <<"via", "through">>,
      <<"e.g.", "for example">>,
      <<"i.e.", "that is">>,
      <<"etc.", "and so on">>,
      <<"as well as", "and">>,
      <<"shall", "must">>,
      <<"may or may not", "might">>,
      <<"in the event that", "if">>,
      <<"at this point in time", "now">>,
      <<"for the purpose of", "to">>,
      <<"due to the fact that", "because">>>>

contractions ==
    <<"don't", "won't", "can't", "shouldn't", "wouldn't", "couldn't",
      "isn't", "aren't", "wasn't", "weren't", "haven't", "hasn't",
      "hadn't", "it's", "that's", "there's", "here's", "what's",
      "who's", "they're">>

latin_abbrev ==
    <<<<"e.g.", "for example">>,
      <<"i.e.", "that is">>,
      <<"etc.", "and so on">>,
      <<"et al.", "and others">>,
      <<"via", "through">>,
      <<"vs.", "versus">>,
      <<"cf.", "compare">>>>

preferred_terms ==
    <<<<"webpage", "web page">>,
      <<"web site", "website">>,
      <<"internet", "Internet">>,
      <<"email", "email">>,
      <<"log in", "sign in">>,
      <<"login", "sign-in">>,
      <<"log on", "sign in">>,
      <<"logon", "sign-in">>,
      <<"logout", "sign out">>,
      <<"username", "user name">>,
      <<"wifi", "Wi-Fi">>,
      <<"backend", "back end">>,
      <<"frontend", "front end">>,
      <<"enduser", "end user">>,
      <<"file name", "filename">>,
      <<"check box", "checkbox">>,
      <<"double click", "double-click">>,
      <<"right click", "right-click">>,
      <<"grayed", "dimmed">>,
      <<"grayed out", "unavailable">>,
      <<"hit", "press">>,
      <<"type in", "enter">>,
      <<"box", "dialog box">>,
      <<"deselect", "clear">>,
      <<"uncheck", "clear">>>>

gendered_terms ==
    <<<<"he", "they">>,
      <<"she", "they">>,
      <<"his", "their">>,
      <<"her", "their">>,
      <<"him", "them">>,
      <<"himself", "themselves">>,
      <<"herself", "themselves">>,
      <<"mankind", "people">>,
      <<"manmade", "synthetic">>,
      <<"man-hours", "person-hours">>>>

\* dict.get(key, default) and key in dict
dict_get(dict, key, default) ==
    LET ks == {k \in 1..Len(dict) : dict[k][1] = key}
    IN  IF ks = {} THEN default ELSE dict[CHOOSE k \in ks : TRUE][2]
dict_has(dict, key) == \E k \in 1..Len(dict) : dict[k][1] = key

(***************************************************************************)
(* MicrosoftStyleLinter.is_in_code_block: re.match(r'^```|^~~~', lines[i]) *)
(* toggles in_code for every i < line_index.  lines is 1-indexed here, so  *)
(* lines[i] of the source is lines[i + 1].                                 *)
(***************************************************************************)
is_fence(line) ==
    \/ startswith(line, BT \o BT \o BT)
    \/ startswith(line, "~~~")

\* is_in_code_block with range(line_index + 1) for range(line_index): the
\* line under test is scanned as well.
is_in_code_block_inclusive(lines, line_index) ==
    LET step(in_code, i) == IF is_fence(lines[i + 1]) THEN ~in_code ELSE in_code
    IN  Fold(step, FALSE, 0, line_index)

is_in_code_block(lines, line_index) ==
    LET step(in_code, i) == IF is_fence(lines[i + 1]) THEN ~in_code ELSE in_code
    IN  Fold(step, FALSE, 0, line_index - 1)

(***************************************************************************)
(* The check functions.  Each takes self.issues and the lines and returns  *)
(* self.issues after the check; i is the 1-based line number.  A loop body *)
(* (per_line, per_match, ...) is the sequence of issues that one iteration *)
(* appends, and the loop appends them in iteration order.                  *)
(***************************************************************************)
\* for i, line in enumerate(lines, 1): the issues of the lines that are not
\* in a code block; per(i) is the loop body after the "continue"
outside_code(per(_), lines) ==
    FlatMap(LAMBDA i : IF is_in_code_block(lines, i - 1) THEN <<>> ELSE per(i),
            1, Len(lines))

\* for match in pattern.finditer(...): per(start, end) for every match
for_matches(per(_, _), matches) ==
    FlatMap(LAMBDA k : per(matches[k][1], matches[k][2]), 1, Len(matches))

\* for key, value in dict.items(): per(key, value) in insertion order
for_items(per(_, _), dict) ==
    FlatMap(LAMBDA k : per(dict[k][1], dict[k][2]), 1, Len(dict))

\* for x in list: per(x)
for_each(per(_), list) == FlatMap(LAMBDA k : per(list[k]), 1, Len(list))

\* lines 241-247, for one line that is not in a code block
forbidden_phrases_line(i, line, line_lower) ==
    for_items(LAMBDA phrase, replacement :
                IF contains(line_lower, phrase)
                THEN add_issue(<<>>, i, index_of(line_lower, phrase),
                       WARNING, "ms-forbidden-phrase",
                       "Avoid '" \o phrase \o "'", line,
                       IF replacement # ""
                       THEN "Replace with: " \o replacement
                       ELSE "Remove this word")
                ELSE <<>>,
              forbidden_phrases)

check_forbidden_phrases(issues, lines) ==
    issues \o outside_code(
                LAMBDA i : forbidden_phrases_line(i, lines[i], lower(lines[i])),
                lines)

contraction_expanded ==
    <<<<"don't", "do not">>, <<"won't", "will not">>, <<"can't", "cannot">>,
      <<"shouldn't", "should not">>, <<"wouldn't", "would not">>,
      <<"couldn't", "could not">>, <<"isn't", "is not">>,
      <<"aren't", "are not">>, <<"wasn't", "was not">>,
      <<"weren't", "were not">>, <<"haven't", "have not">>,
      <<"hasn't", "has not">>, <<"hadn't", "had not">>, <<"it's", "it is">>,
      <<"that's", "that is">>, <<"there's", "there is">>,
      <<"here's", "here is">>, <<"what's", "what is">>,
      <<"who's", "who is">>, <<"they're", "they are">>>>

\* lines 257-273: match.group(1) is line[start:end], contraction its lower()
contractions_line(i, line, line_lower) ==
    for_matches(LAMBDA start, end :
                  add_issue(<<>>, i, start, WARNING, "ms-contraction",
                    "Avoid contractions in technical documentation: '"
                       \o slice(line, start, end) \o "'",
                    line,
                    "Use: " \o dict_get(contraction_expanded,
                                        slice(line_lower, start, end),
                                        "expanded form")),
                finditer(LAMBDA p : alt_at(line_lower, p, contractions), line))

\* check_contractions without the is_in_code_block test: the contractions
\* of a code block are reported as well.
check_contractions_everywhere(issues, lines) ==
    issues \o FlatMap(LAMBDA i : contractions_line(i, lines[i], lower(lines[i])),
                      1, Len(lines))

check_contractions(issues, lines) ==
    issues \o outside_code(
                LAMBDA i : contractions_line(i, lines[i], lower(lines[i])),
                lines)

\* lines 281-286
latin_abbreviations_line(i, line, line_lower) ==
    for_items(LAMBDA abbrev, replacement :
                IF contains(line_lower, abbrev)
                THEN add_issue(<<>>, i, index_of(line_lower, abbrev),
                       WARNING, "ms-latin-abbrev",
                       "Avoid Latin abbreviation '" \o abbrev \o "'",
                       line, "Use: " \o replacement)
                ELSE <<>>,
              latin_abbrev)

check_latin_abbreviations(issues, lines) ==
    issues \o outside_code(
                LAMBDA i : latin_abbreviations_line(i, lines[i], lower(lines[i])),
                lines)

\* lines 294-301
preferred_terminology_line(i, line, line_lower) ==
    for_items(LAMBDA incorrect, correct :
                for_matches(LAMBDA start, end :
                              add_issue(<<>>, i, start, INFO, "ms-preferred-term",
                                "Microsoft prefers '" \o correct \o "' over '"
                                   \o slice(line, start, end) \o "'",
                                line, "Use: " \o correct),
                            finditer(LAMBDA p : word_at(line_lower, p, incorrect),
                                     line)),
              preferred_terms)

check_preferred_terminology(issues, lines) ==
    issues \o outside_code(
                LAMBDA i : preferred_terminology_line(i, lines[i], lower(lines[i])),
                lines)

directional_alternatives ==
    <<"above", "below", "left", "right", "top", "bottom", "upper", "lower">>
directional_referents == {"menu", "bar", "corner", "section", "panel"}

\* (?!\s+(noun1|noun2|...)) after a match that ends at e
not_followed_by(line_lower, e, nouns) ==
    IF e < 0 THEN -1
    ELSE IF /\ ch(line_lower, e) \in SpaceSet
            /\ \E noun \in nouns :
                 lit_at(line_lower, run_end(line_lower, e, SpaceSet), noun)
    THEN -1
    ELSE e

\* \b(above|...)\b(?!\s+(menu|bar|corner|section|panel)), re.IGNORECASE
directional_pattern(line_lower, p) ==
    not_followed_by(line_lower, alt_at(line_lower, p, directional_alternatives),
                    directional_referents)

\* lines 315-322
directional_language_line(i, line, line_lower) ==
    IF contains(line, BT) \/ contains(line_lower, "screenshot")
    THEN <<>>
    ELSE for_matches(LAMBDA start, end :
                       add_issue(<<>>, i, start, WARNING, "ms-directional",
                         "Avoid directional language: '"
                            \o slice(line, start, end) \o "'",
                         line,
                         "Use 'preceding', 'following', or specific references instead"),
                     finditer(LAMBDA p : directional_pattern(line_lower, p), line))

check_directional_language(issues, lines) ==
    issues \o outside_code(
                LAMBDA i : directional_language_line(i, lines[i], lower(lines[i])),
                lines)

future_alternatives ==
    <<"will be", "will have", "will see", "will allow", "will enable",
      "is going to", "are going to">>

\* lines 335-339
future_tense_line(i, line, line_lower) ==
    for_matches(LAMBDA start, end :
                  add_issue(<<>>, i, start, INFO, "ms-future-tense",
                    "Prefer present tense over future: '"
                       \o slice(line, start, end) \o "'",
                    line,
                    "Use present tense (e.g., 'allows', 'enables', 'displays')"),
                finditer(LAMBDA p : alt_at(line_lower, p, future_alternatives),
                         line))

check_future_tense(issues, lines) ==
    issues \o outside_code(
                LAMBDA i : future_tense_line(i, lines[i], lower(lines[i])),
                lines)

\* r'\b\w+\b' at offset p: a maximal run of word characters
word_run_at(s, p) ==
    IF is_word(ch(s, p)) /\ wb(s, p) THEN run_end(s, p, WordSet) ELSE -1

\* lines 349-355, for one word of re.findall(r'\b\w+\b', line_lower)
gender_neutral_word(i, line, line_lower, word) ==
    IF dict_has(gendered_terms, word)
    THEN add_issue(<<>>, i, index_of(line_lower, word), WARNING,
           "ms-gender-neutral",
           "Use gender-neutral language: '" \o word \o "'",
           line,
           "Consider: " \o dict_get(gendered_terms, word, ""))
    ELSE <<>>

check_gender_neutral(issues, lines) ==
    issues \o outside_code(
                LAMBDA i :
                  for_matches(LAMBDA start, end :
                                gender_neutral_word(i, lines[i], lower(lines[i]),
                                  slice(lower(lines[i]), start, end)),
                              finditer(LAMBDA p : word_run_at(lower(lines[i]), p),
                                       lower(lines[i]))),
                lines)

passive_auxiliaries == <<"is", "are", "was", "were", "be", "been", "being">>

\* \b aux \s+\w+ed\b at offset p: \w+ backtracks to the last "ed" that ends
\* at a word boundary, which is the end of the run of word characters
passive_end(line_lower, p, aux) ==
    LET q == p + Len(aux)
        r == run_end(line_lower, Min(q, Len(line_lower)), SpaceSet)
        e == run_end(line_lower, r, WordSet)
    IN  IF /\ lit_at(line_lower, p, aux)
           /\ wb(line_lower, p)
           /\ r > q
           /\ e - r >= 3
           /\ slice(line_lower, e - 2, e) = "ed"
        THEN e ELSE -1

\* \b(is|are|was|were|be|been|being)\s+\w+ed\b, re.IGNORECASE
passive_pattern(line_lower, p) ==
    first_alternative(LAMBDA k : passive_end(line_lower, p, passive_auxiliaries[k]),
                      Len(passive_auxiliaries))

\* lines 369-375
voice_line(i, line, line_lower) ==
    for_matches(LAMBDA start, end :
                  IF ~ \E word \in {"speed", "need", "feed"} :
                         contains(line_lower, word)
                  THEN add_issue(<<>>, i, start, INFO, "ms-passive-voice",
                         "Consider using active voice", line,
                         "Rewrite in active voice for clarity")
                  ELSE <<>>,
                finditer(LAMBDA p : passive_pattern(line_lower, p), line))

check_voice(issues, lines) ==
    issues \o outside_code(
                LAMBDA i : voice_line(i, lines[i], lower(lines[i])),
                lines)

\* heading_pattern = r'^(#{1,6})\s+(.+)$': <<matched, group(2)>>.  \s+ is
\* greedy and gives one character back when the line ends in white space.
heading_match(line) ==
    LET h == run_end(line, 0, {"#"})
        r == run_end(line, h, SpaceSet)
    IN  IF h >= 1 /\ h <= 6 /\ r > h /\ Len(line) >= h + 2
        THEN <<TRUE, IF r < Len(line) THEN slice(line, r, Len(line))
                     ELSE slice(line, Len(line) - 1, Len(line))>>
        ELSE <<FALSE, "">>

\* heading_words with "at least half" for "more than half" in the test
\* of line 392.
heading_words_at_least_half(i, line, title, words, first_word) ==
    (IF /\ Len(words) > 1
        /\ 2 * Cardinality({k \in 2..Len(words) :
                              ch(words[k], 0) \in UpperSet /\ Len(words[k]) > 3})
             >= Len(words) - 1
     THEN add_issue(<<>>, i, 0, INFO, "ms-heading-case",
            "Microsoft prefers sentence case for headings", line,
            "Use sentence case (capitalize only first word and proper nouns)")
     ELSE <<>>)
    \o (IF endswith_any(rstrip(title), {".", "!", "?", ":"})
        THEN add_issue(<<>>, i, Len(line) - 1, WARNING, "ms-heading-punctuation",
               "Headings should not end with punctuation", line,
               "Remove trailing punctuation")
        ELSE <<>>)
    \o (IF endswith(lower(first_word), "ing")
        THEN add_issue(<<>>, i, 0, INFO, "ms-heading-gerund",
               "Consider using imperative or noun form instead of gerund: '"
                  \o first_word \o "'",
               line, "Use imperative (e.g., 'Configure') or noun form")
        ELSE <<>>)

\* lines 388-408: words is title.split(), first_word is words[0] or ""
heading_words(i, line, title, words, first_word) ==
    (IF /\ Len(words) > 1
        /\ 2 * Cardinality({k \in 2..Len(words) :
                              ch(words[k], 0) \in UpperSet /\ Len(words[k]) > 3})
             > Len(words) - 1
     THEN add_issue(<<>>, i, 0, INFO, "ms-heading-case",
            "Microsoft prefers sentence case for headings", line,
            "Use sentence case (capitalize only first word and proper nouns)")
     ELSE <<>>)
    \o (IF endswith_any(rstrip(title), {".", "!", "?", ":"})
        THEN add_issue(<<>>, i, Len(line) - 1, WARNING, "ms-heading-punctuation",
               "Headings should not end with punctuation", line,
               "Remove trailing punctuation")
        ELSE <<>>)
    \o (IF endswith(lower(first_word), "ing")
        THEN add_issue(<<>>, i, 0, INFO, "ms-heading-gerund",
               "Consider using imperative or noun form instead of gerund: '"
                  \o first_word \o "'",
               line, "Use imperative (e.g., 'Configure') or noun form")
        ELSE <<>>)

\* lines 385-387: title = match.group(2).strip()
heading_title(i, line, title) ==
    heading_words(i, line, title, split(title),
                  IF Len(split(title)) > 0 THEN split(title)[1] ELSE "")

check_headings_microsoft(issues, lines) ==
    issues \o FlatMap(LAMBDA i : IF heading_match(lines[i])[1]
                                 THEN heading_title(i, lines[i],
                                        strip(heading_match(lines[i])[2]))
                                 ELSE <<>>,
                      1, Len(lines))

\* list_pattern = r'^(\s*)([-*+]|\d+\.)\s+(.+)$': <<matched, group(3)>>
list_match(line) ==
    LET a == run_end(line, 0, SpaceSet)
        d == run_end(line, a, DigitSet)
        m == IF ch(line, a) \in {"-", "*", "+"} THEN a + 1
             ELSE IF d > a /\ ch(line, d) = "." THEN d + 1
             ELSE -1
        r == run_end(line, Max(m, 0), SpaceSet)
    IN  IF m >= 0 /\ m <= Len(line) /\ r > m /\ Len(line) >= m + 2
        THEN <<TRUE, IF r < Len(line) THEN slice(line, r, Len(line))
                     ELSE slice(line, Len(line) - 1, Len(line))>>
        ELSE <<FALSE, "">>

\* lines 417-436: content is match.group(3), prev_match the match of the
\* line before (no match for the first line)
list_item(i, line, content, prev_match) ==
    (IF /\ content # ""
        /\ ch(content, 0) \in LowerSet
        /\ i > 1
        /\ prev_match[1]
        /\ prev_match[2] # ""
        /\ ch(prev_match[2], 0) \in UpperSet
     THEN add_issue(<<>>, i, 0, INFO, "ms-list-parallel",
            "List items should have parallel structure", line,
            "Ensure all list items start with same case")
     ELSE <<>>)
    \o (IF /\ Len(split(content)) > 5
           /\ ~ endswith_any(rstrip(content), {".", ":", "!"})
        THEN add_issue(<<>>, i, Len(line) - 1, INFO, "ms-list-punctuation",
               "Complete sentences in lists should end with period", line,
               "Add period if this is a complete sentence")
        ELSE <<>>)

check_lists_microsoft(issues, lines) ==
    issues \o FlatMap(LAMBDA i : IF list_match(lines[i])[1]
                                 THEN list_item(i, lines[i], list_match(lines[i])[2],
                                        IF i > 1 THEN list_match(lines[i - 1])
                                        ELSE <<FALSE, "">>)
                                 ELSE <<>>,
                      1, Len(lines))

\* lines 445-450
check_capitalization(issues, lines) ==
    issues \o outside_code(
                LAMBDA i :
                  for_matches(LAMBDA start, end :
                                add_issue(<<>>, i, start, WARNING, "ms-internet-cap",
                                  "'Internet' should be capitalized", lines[i],
                                  "Use: Internet"),
                              finditer(LAMBDA p : word_at(lines[i], p, "internet"),
                                       lines[i])),
                lines)

PunctSet == {".", ",", "!", "?", ";", ":"}

\* r'\s+[.,!?;:]' at offset p
space_punct_at(line, p) ==
    IF /\ ch(line, p) \in SpaceSet
       /\ ch(line, run_end(line, p, SpaceSet)) \in PunctSet
    THEN run_end(line, p, SpaceSet) + 1 ELSE -1

\* \s+ from offset p: the end of the white space, or -1
spaces_at(line, p) ==
    IF p >= 0 /\ ch(line, p) \in SpaceSet THEN run_end(line, p, SpaceSet) ELSE -1

\* \w+ from offset p: the end of the word, or -1
word_chars_at(line, p) ==
    IF p >= 0 /\ ch(line, p) \in WordSet THEN run_end(line, p, WordSet) ELSE -1

\* one literal from offset p
literal_at(line, p, lit) == IF lit_at(line, p, lit) THEN p + Len(lit) ELSE -1

\* r'\w+,\s+\w+\s+and\s+\w+' at offset p: every piece matches in one way
\* only, where the piece before it ends
serial_at(line, p) ==
    word_chars_at(line,
      spaces_at(line,
        literal_at(line,
          spaces_at(line,
            word_chars_at(line,
              spaces_at(line,
                literal_at(line, word_chars_at(line, p), ",")))),
          "and")))

\* lines 458-478: the code searches once for the test and once more for the
\* position, with the same result
punctuation_line(i, line) ==
    (IF contains(line, "  ")
     THEN add_issue(<<>>, i, index_of(line, "  "), INFO, "ms-double-space",
            "Use single space between sentences", line, "Remove extra space")
     ELSE <<>>)
    \o (IF search(LAMBDA p : space_punct_at(line, p), line)[1] >= 0
        THEN add_issue(<<>>, i,
               search(LAMBDA p : space_punct_at(line, p), line)[1],
               WARNING, "ms-space-before-punct",
               "No space before punctuation", line,
               "Remove space before punctuation mark")
        ELSE <<>>)
    \o (IF search(LAMBDA p : serial_at(line, p), line)[1] >= 0
        THEN add_issue(<<>>, i, search(LAMBDA p : serial_at(line, p), line)[1],
               INFO, "ms-oxford-comma",
               "Microsoft style uses serial comma", line,
               "Add comma before 'and' in series")
        ELSE <<>>)

check_punctuation(issues, lines) ==
    issues \o outside_code(LAMBDA i : punctuation_line(i, lines[i]), lines)

unit_abbreviations == {"GB", "MB", "KB", "TB", "ms", "cm", "mm", "km", "kg", "mg"}

\* r'\d+(GB|MB|KB|TB|ms|cm|mm|km|kg|mg)' at offset p
no_space_at(line, p) ==
    LET d == run_end(line, p, DigitSet)
    IN  IF d > p /\ slice(line, d, d + 2) \in unit_abbreviations
        THEN d + 2 ELSE -1

\* r'(?<!\d)\.\d+' at offset p
decimal_at(line, p) ==
    IF /\ ch(line, p) = "."
       /\ ch(line, p - 1) \notin DigitSet
       /\ ch(line, p + 1) \in DigitSet
    THEN run_end(line, p + 1, DigitSet) ELSE -1

\* lines 486-507: match.group().rstrip('GMKTBmcskbg') is the digits and
\* match.group()[-2:] the unit
numbers_and_units_line(i, line) ==
    (IF ch(strip(line), 0) \in DigitSet
     THEN add_issue(<<>>, i, 0, INFO, "ms-number-start",
            "Spell out numbers at the beginning of a sentence",
            line, "Rewrite sentence or spell out the number")
     ELSE <<>>)
    \o for_matches(LAMBDA start, end :
                     add_issue(<<>>, i, start, WARNING, "ms-number-unit-space",
                       "Add space between number and unit", line,
                       "Use: " \o slice(line, start, end - 2) \o " "
                          \o slice(line, end - 2, end)),
                   finditer(LAMBDA p : no_space_at(line, p), line))
    \o for_matches(LAMBDA start, end :
                     add_issue(<<>>, i, start, INFO, "ms-zero-decimal",
                       "Include zero before decimal point", line,
                       "Use: 0" \o slice(line, start, end)),
                   finditer(LAMBDA p : decimal_at(line, p), line))

check_numbers_and_units(issues, lines) ==
    issues \o outside_code(LAMBDA i : numbers_and_units_line(i, lines[i]), lines)

ui_verbs == <<"click", "select", "choose", "press", "enter", "type">>

\* rf'\b{verb}\s+(?!the\s+)`?\w+`?' at offset p, re.IGNORECASE
ui_verb_at(line_lower, p, verb) ==
    LET r == spaces_at(line_lower, p + Len(verb))
        a == IF r >= 0 /\ ch(line_lower, r) = BT THEN r + 1 ELSE r
        e == word_chars_at(line_lower, a)
    IN  IF /\ lit_at(line_lower, p, verb)
           /\ wb(line_lower, p)
           /\ r >= 0
           /\ ~ (lit_at(line_lower, r, "the") /\ ch(line_lower, r + 3) \in SpaceSet)
           /\ e >= 0
        THEN IF ch(line_lower, e) = BT THEN e + 1 ELSE e
        ELSE -1

\* lines 521-535: after_verb is line[match.end():match.end()+20]
ui_elements_line(i, line, line_lower) ==
    for_each(LAMBDA verb :
               for_matches(LAMBDA start, end :
                             IF /\ ~ startswith(slice(line, end, end + 20), "**")
                                /\ ~ startswith(slice(line, end, end + 20), BT)
                                /\ verb \in {"click", "press", "select"}
                             THEN add_issue(<<>>, i, start, INFO, "ms-ui-element",
                                    "UI elements should be bold. Also prefer 'select' over '"
                                       \o verb \o "'",
                                    line, "Format UI element in bold (**element**)")
                             ELSE <<>>,
                           finditer(LAMBDA p : ui_verb_at(line_lower, p, verb), line)),
             ui_verbs)
    \o (IF search(LAMBDA p : word_at(line_lower, p, "click on"), line)[1] >= 0
        THEN add_issue(<<>>, i,
               search(LAMBDA p : word_at(line_lower, p, "click on"), line)[1],
               WARNING, "ms-click-on",
               "Use 'select' instead of 'click on'", line,
               "Replace 'click on' with 'select'")
        ELSE <<>>)

check_ui_elements(issues, lines) ==
    issues \o outside_code(
                LAMBDA i : ui_elements_line(i, lines[i], lower(lines[i])),
                lines)

code_indicators ==
    <<"function", "method", "class", "variable", "parameter", "property">>

\* rf'\b{indicator}\s+\w+\b(?!`)' at offset p, re.IGNORECASE
code_indicator_at(line_lower, p, indicator) ==
    LET e == word_chars_at(line_lower, spaces_at(line_lower, p + Len(indicator)))
    IN  IF /\ lit_at(line_lower, p, indicator)
           /\ wb(line_lower, p)
           /\ e >= 0
           /\ ch(line_lower, e) # BT
        THEN e ELSE -1

\* lines 550-556: word_after = re.search(r'\w+', line[match.end():]) and
\* pos = match.end() + word_after.start()
code_format_match(i, line, end, word_after) ==
    IF /\ word_after[1] >= 0
       /\ end + word_after[1] < Len(line)
       /\ ch(line, end + word_after[1] - 1) # BT
    THEN add_issue(<<>>, i, end + word_after[1], INFO, "ms-code-format",
           "Code elements should be formatted as code", line,
           "Wrap in backticks (" \o BT \o "code" \o BT \o ")")
    ELSE <<>>

\* lines 545-549
code_formatting_line(i, line, line_lower) ==
    for_each(LAMBDA indicator :
               for_matches(LAMBDA start, end :
                             code_format_match(i, line, end,
                               search(LAMBDA p : word_chars_at(
                                                   slice(line, end, Len(line)), p),
                                      slice(line, end, Len(line)))),
                           finditer(LAMBDA p :
                                      code_indicator_at(line_lower, p, indicator),
                                    line)),
             code_indicators)

check_code_formatting(issues, lines) ==
    issues \o outside_code(
                LAMBDA i : code_formatting_line(i, lines[i], lower(lines[i])),
                lines)

\* inline_link = r'\[([^\]]+)\]\(([^)]+)\)' at offset p:
\* <<end, start of text, end of text, start of url, end of url>>
inline_link_at(line, p) ==
    LET q == run_end(line, p + 1, AnySet \ {"]"})
        r == run_end(line, q + 2, AnySet \ {")"})
    IN  IF /\ ch(line, p) = "["
           /\ q > p + 1
           /\ lit_at(line, q, "](")
           /\ r > q + 2
           /\ ch(line, r) = ")"
        THEN <<r + 1, p + 1, q, q + 2, r>>
        ELSE <<-1, 0, 0, 0, 0>>

\* lines 567-585: link_text is match.group(1), url match.group(2) and
\* before_link is line[:match.start()].lower().strip()
link_issues(i, line, start, link_text, url, before_link) ==
    (IF lower(link_text) \in {"click here", "here", "this link", "this page"}
     THEN add_issue(<<>>, i, start, WARNING, "ms-link-text",
            "Avoid '" \o link_text \o "' as link text", line,
            "Use descriptive link text that makes sense out of context")
     ELSE <<>>)
    \o (IF startswith(url, "http") /\ startswith(link_text, "http")
        THEN add_issue(<<>>, i, start, INFO, "ms-link-descriptive",
               "Use descriptive link text instead of URL", line,
               "Replace URL with meaningful description")
        ELSE <<>>)
    \o (IF endswith_any(before_link, {"see", "see the", "refer to", "refer to the"})
        THEN add_issue(<<>>, i, start - 10, INFO, "ms-link-see",
               "Link text should be descriptive without 'see' or 'refer to'",
               line,
               "Remove 'see' or 'refer to' and use descriptive link text")
        ELSE <<>>)

\* lines 562-566, for one match of inline_link.finditer(line)
link_match(i, line, start, groups) ==
    link_issues(i, line, start, slice(line, groups[2], groups[3]),
                slice(line, groups[4], groups[5]),
                strip(lower(slice(line, 0, start))))

\* lines 560-561: every line, in a code block or not
check_links_microsoft(issues, lines) ==
    issues \o FlatMap(LAMBDA i :
                        for_matches(LAMBDA start, end :
                                      link_match(i, lines[i], start,
                                                 inline_link_at(lines[i], start)),
                                    finditer(LAMBDA p : inline_link_at(lines[i], p)[1],
                                             lines[i])),
                      1, Len(lines))

\* img_pattern = r'!\[\s*\]\([^)]+\)' at offset p
img_at(line, p) ==
    LET a == run_end(line, p + 2, SpaceSet)
        r == run_end(line, a + 2, AnySet \ {")"})
    IN  IF /\ lit_at(line, p, "![")
           /\ lit_at(line, a, "](")
           /\ r > a + 2
           /\ ch(line, r) = ")"
        THEN r + 1 ELSE -1

color_only == <<"red", "green", "blue", "yellow", "colored", "highlighted">>
color_qualifiers == {"text", "background", "icon", "button"}

\* rf'\b{color}\b(?!\s+(text|background|icon|button))' at offset p
color_at(line_lower, p, color) ==
    not_followed_by(line_lower, word_at(line_lower, p, color), color_qualifiers)

\* lines 591-607, for one line: the code searches line.lower() once for the
\* test and once more for the position
accessibility_line(i, line, line_lower) ==
    for_matches(LAMBDA start, end :
                  add_issue(<<>>, i, start, ERROR, "ms-alt-text",
                    "Images must have alt text for accessibility", line,
                    "Add descriptive alt text: ![description](url)"),
                finditer(LAMBDA p : img_at(line, p), line))
    \o for_each(LAMBDA color :
                  IF search(LAMBDA p : color_at(line_lower, p, color),
                            line_lower)[1] >= 0
                  THEN add_issue(<<>>, i,
                         search(LAMBDA p : color_at(line_lower, p, color),
                                line_lower)[1],
                         WARNING, "ms-color-only",
                         "Don't rely solely on color ('" \o color
                            \o "') to convey information",
                         line, "Add text labels or icons in addition to color")
                  ELSE <<>>,
                color_only)

\* check_accessibility with the is_in_code_block test that most checks
\* begin with: the images of a code block are not reported.
check_accessibility_outside_code(issues, lines) ==
    issues \o outside_code(
                LAMBDA i : accessibility_line(i, lines[i], lower(lines[i])),
                lines)

\* lines 589-590: every line, in a code block or not
check_accessibility(issues, lines) ==
    issues \o FlatMap(LAMBDA i : accessibility_line(i, lines[i], lower(lines[i])),
                      1, Len(lines))

problematic_terms ==
    <<<<"blacklist", "blocklist or denylist">>,
      <<"whitelist", "allowlist or safelist">>,
      <<"master", "primary or main">>,
      <<"slave", "secondary or replica">>,
      <<"native", "built-in or core">>,
      <<"grandfathered", "legacy">>,
      <<"dummy", "placeholder or sample">>,
      <<"sanity check", "consistency check or validation">>,
      <<"crazy", "unexpected or surprising">>,
      <<"insane", "extreme or intensive">>,
      <<"cripple", "disable or limit">>,
      <<"blind", "without knowledge of or hidden">>,
      <<"man-in-the-middle", "machine-in-the-middle or interceptor">>>>

\* lines 633-640
inclusive_language_line(i, line, line_lower) ==
    for_items(LAMBDA term, alternative :
                for_matches(LAMBDA start, end :
                              add_issue(<<>>, i, start, WARNING, "ms-inclusive",
                                "Use inclusive language: avoid '"
                                   \o slice(line, start, end) \o "'",
                                line, "Consider: " \o alternative),
                            finditer(LAMBDA p : word_at(line_lower, p, term), line)),
              problematic_terms)

check_inclusive_language(issues, lines) ==
    issues \o outside_code(
                LAMBDA i : inclusive_language_line(i, lines[i], lower(lines[i])),
                lines)

(***************************************************************************)
(* MicrosoftStyleLinter.lint_file                                          *)
(***************************************************************************)
\* the order of key=lambda x: x.line_number, without the column: C6 does
\* not hold of it
sort_key_line_only(x, y) == x.line_number <= y.line_number

\* key=lambda x: (x.line_number, x.column)
sort_key_le(x, y) ==
    \/ x.line_number < y.line_number
    \/ x.line_number = y.line_number /\ x.column <= y.column

\* list.sort(key=...): stable, ascending
sort_issues(issues) ==
    LET insert(sorted, k) ==
          LET x == issues[k]
              n == Cardinality({j \in 1..Len(sorted) : sort_key_le(sorted[j], x)})
          IN  SubSeq(sorted, 1, n) \o <<x>> \o SubSeq(sorted, n + 1, Len(sorted))
    IN  Fold(insert, <<>>, 1, Len(issues))

\* lines 193-210: the check functions in the order lint_file calls them,
\* the first one innermost
run_checks(issues, lines) ==
    check_inclusive_language(
      check_accessibility(
        check_links_microsoft(
          check_code_formatting(
            check_ui_elements(
              check_numbers_and_units(
                check_punctuation(
                  check_capitalization(
                    check_lists_microsoft(
                      check_headings_microsoft(
                        check_voice(
                          check_gender_neutral(
                            check_future_tense(
                              check_directional_language(
                                check_preferred_terminology(
                                  check_latin_abbreviations(
                                    check_contractions(
                                      check_forbidden_phrases(issues, lines),
                                      lines),
                                    lines),
                                  lines),
                                lines),
                              lines),
                            lines),
                          lines),
                        lines),
                      lines),
                    lines),
                  lines),
                lines),
              lines),
            lines),
          lines),
        lines),
      lines)

\* A file system maps a path to what open()/Path see there.
Missing == [kind |-> "missing"]
Unreadable(err) == [kind |-> "unreadable", error |-> err]
File(content) == [kind |-> "file", content |-> content]
Dir(md) == [kind |-> "dir", rglob |-> md]

\* open(filepath, 'r', encoding='utf-8').read(): the content, or the
\* exception's text
read_file(fsys, filepath) ==
    LET entry == IF filepath \in DOMAIN fsys THEN fsys[filepath] ELSE Missing
    IN  CASE entry.kind = "file" -> [ok |-> TRUE, content |-> entry.content]
          [] entry.kind = "unreadable" -> [ok |-> FALSE, error |-> entry.error]
          [] entry.kind = "dir" ->
               [ok |-> FALSE,
                error |-> "[Errno 21] Is a directory: '" \o filepath \o "'"]
          [] OTHER ->
               [ok |-> FALSE,
                error |-> "[Errno 2] No such file or directory: '" \o filepath \o "'"]

(***************************************************************************)
(* The inputs of the model.                                                *)
(***************************************************************************)
Fence == BT \o BT \o BT

\* the lines that documents are made of
LinePool ==
    {"",
     "plain text",
     Fence,
     "  " \o Fence,
     "~~~",
     "see [here](http://x)",
     "![](p.png) utilize it",
     "## Configuring The System:",
     "- Item one",
     "- item two is six words long"}

\* every document of at most MaxLines lines
Docs == UNION {[1..n -> LinePool] : n \in 0..MaxLines}

\* the text of a document: every line followed by "\n"
text_of(doc) ==
    LET per_line(i) == doc[i] \o NL
    IN  FlatMap(per_line, 1, Len(doc))

DocPath == "doc.md"
DocText(doc) == IF Len(doc) = 0 THEN "" ELSE text_of(doc)

\* the file system of the runs of main
FileSystem ==
    [p \in {"missing.md", "locked.md", "clean.md", "img.md", "docs",
            "docs/a.md", "docs/b.md"} |->
       CASE p = "missing.md" -> Missing
         [] p = "locked.md" ->
              Unreadable("[Errno 13] Permission denied: 'locked.md'")
         [] p = "clean.md" -> File("plain text\n")
         [] p = "img.md" -> File("![](p.png) utilize it\n## Configuring The System:\n")
         [] p = "docs" -> Dir(<<"docs/a.md", "docs/b.md">>)
         [] p = "docs/a.md" -> File("see [here](http://x)\n")
         [] p = "docs/b.md" -> File("![](p.png) utilize it\n## Configuring The System:\n")]

\* the paths a command line names
ArgPaths == {"missing.md", "locked.md", "clean.md", "img.md", "docs"}

None == ""
Args ==
    [files : UNION {[1..n -> ArgPaths] : n \in 1..MaxArgs},
     severity : {"error", "warning", "info"},
     no_color : BOOLEAN,
     show_lines : {TRUE},
     json : {None, "report.json"},
     summary : BOOLEAN,
     group_by_rule : BOOLEAN]

(***************************************************************************)
(* MicrosoftStyleLinter.lint_file, continued                               *)
(***************************************************************************)
\* lines 184 and 190-212: split the text, run the checks, sort
lint_content(issues, content) ==
    sort_issues(run_checks(issues, splitlines(content)))

\* lint_content on an empty issue list, tabulated for the files of
\* FileSystem
FileSystemIssues ==
    [p \in {q \in DOMAIN FileSystem : FileSystem[q].kind = "file"} |->
       lint_content(<<>>, FileSystem[p].content)]

\* lint_file without line 179: the calls go on appending to the list that
\* __init__ made.  C10 does not hold of it.
keep_issue_list(objects, self) == <<objects, self>>

\* self.issues = []: a new list object.  The heap is the sequence of the
\* list objects created so far, a reference is an index into it.
new_issue_list(objects, self) == <<Append(objects, <<>>), Len(objects) + 1>>

\* lint_file with "except Exception: pass" for lines 185-188: a file that
\* cannot be read leaves no finding.  C11 does not hold of it.
lint_file_unrecorded(objects, self, fsys, filepath) ==
    LET fresh == new_issue_list(objects, self)
        f == read_file(fsys, filepath)
    IN  IF ~ f.ok
        THEN fresh
        ELSE <<[fresh[1] EXCEPT ![fresh[2]] =
                  IF @ = <<>> /\ fsys = FileSystem
                  THEN FileSystemIssues[filepath]
                  ELSE lint_content(@, f.content)],
               fresh[2]>>

\* lint_file(filepath): <<heap after the call, the reference returned>>
lint_file(objects, self, fsys, filepath) ==
    LET fresh == new_issue_list(objects, self)
        h == fresh[1]
        ref == fresh[2]
        f == read_file(fsys, filepath)
    IN  IF ~ f.ok
        THEN <<[h EXCEPT ![ref] =
                  add_issue(@, 0, 0, ERROR, "file-read",
                            "Error reading file: " \o f.error, "", "")],
               ref>>
        ELSE <<[h EXCEPT ![ref] =
                  IF @ = <<>> /\ fsys = FileSystem
                  THEN FileSystemIssues[filepath]
                  ELSE lint_content(@, f.content)],
               ref>>

(***************************************************************************)
(* format_issue, generate_report and the helpers of main                   *)
(***************************************************************************)
\* format_issue: what the text shows (the ANSI colour codes are on when
\* use_color)
format_issue(issue, show_line, use_color) ==
    [severity |-> CASE issue.severity = ERROR -> "ERROR"
                    [] issue.severity = WARNING -> "WARNING"
                    [] OTHER -> "INFO",
     location |-> <<issue.line_number, issue.column>>,
     rule |-> issue.rule,
     message |-> issue.message,
     line |-> IF show_line /\ issue.line_content # "" THEN issue.line_content ELSE "",
     suggestion |-> issue.suggestion,
     color |-> use_color]

\* the elements of a finite set of integers, ascending
Ascending(S) ==
    [k \in 1..Cardinality(S) |->
       CHOOSE x \in S : Cardinality({y \in S : y < x}) = k - 1]

count_severity(issues, severity) ==
    Cardinality({k \in 1..Len(issues) : issues[k].severity = severity})

\* rule_counts[issue.rule] = rule_counts.get(issue.rule, 0) + 1: a dict in
\* insertion order
count_rules(issues) ==
    LET first == {k \in 1..Len(issues) :
                    \A j \in 1..(k - 1) : issues[j].rule # issues[k].rule}
        order == Ascending(first)
    IN  [n \in 1..Len(order) |->
           <<issues[order[n]].rule,
             Cardinality({j \in 1..Len(issues) :
                            issues[j].rule = issues[order[n]].rule})>>]

generate_report(issues, filepath) ==
    [filepath |-> filepath,
     total_issues |-> Len(issues),
     errors |-> count_severity(issues, ERROR),
     warnings |-> count_severity(issues, WARNING),
     info |-> count_severity(issues, INFO),
     rule_counts |-> count_rules(issues)]

\* severity_levels with the ranks the other way round: C9 does not hold
\* of it
severity_levels_reversed == [error |-> 1, warning |-> 2, info |-> 3]

severity_levels == [error |-> 3, warning |-> 2, info |-> 1]

\* [issue for issue in issues
\*  if severity_levels[issue.severity.value] >= min_severity]
filter_by_severity(issues, min_severity) ==
    LET keep(issue) == severity_levels[issue.severity] >= min_severity
    IN  SelectSeq(issues, keep)

\* the order of str on rule identifiers: ASCII, '-' before the letters
RuleChars == "-abcdefghijklmnopqrstuvwxyz"
char_rank(c) == CHOOSE k \in 1..Len(RuleChars) : SubSeq(RuleChars, k, k) = c
str_less(a, b) ==
    LET diff == {k \in 0..(Min(Len(a), Len(b)) - 1) : ch(a, k) # ch(b, k)}
    IN  IF diff = {} THEN Len(a) < Len(b)
        ELSE char_rank(ch(a, SetMin(diff))) < char_rank(ch(b, SetMin(diff)))

\* the console output for by_rule: for rule, rule_issues in
\* sorted(by_rule.items()), the header then the issues of the rule
print_by_rule(issues, show_lines, use_color) ==
    LET rules == {issues[k].rule : k \in 1..Len(issues)}
        sorted == [n \in 1..Cardinality(rules) |->
                     CHOOSE r \in rules :
                       Cardinality({q \in rules : str_less(q, r)}) = n - 1]
        per_rule(n) ==
          LET of_rule(issue) == issue.rule = sorted[n]
              rule_issues == SelectSeq(issues, of_rule)
              per_issue(k) ==
                <<[print |-> "issue",
                   text |-> format_issue(rule_issues[k], show_lines, use_color)]>>
          IN  <<[print |-> "rule", rule |-> sorted[n], count |-> Len(rule_issues)]>>
                \o FlatMap(per_issue, 1, Len(rule_issues))
    IN  FlatMap(per_rule, 1, Len(sorted))

print_flat(issues, show_lines, use_color) ==
    LET per_issue(k) ==
          <<[print |-> "issue",
             text |-> format_issue(issues[k], show_lines, use_color)]>>
    IN  FlatMap(per_issue, 1, Len(issues))

sum_field(results, field(_)) ==
    LET add(acc, k) == acc + field(results[k])
    IN  Fold(add, 0, 1, Len(results))

\* all_rule_counts over all_results, then
\* sorted(..., key=lambda x: x[1], reverse=True)[:5]
top_issues(results) ==
    LET per_result(k) == results[k].rule_counts
        all == FlatMap(per_result, 1, Len(results))
        first == {k \in 1..Len(all) : \A j \in 1..(k - 1) : all[j][1] # all[k][1]}
        order == Ascending(first)
        total(rule) ==
          LET add(acc, k) == IF all[k][1] = rule THEN acc + all[k][2] ELSE acc
          IN  Fold(add, 0, 1, Len(all))
        all_rule_counts == [n \in 1..Len(order) |->
                              <<all[order[n]][1], total(all[order[n]][1])>>]
        insert(sorted, k) ==
          LET x == all_rule_counts[k]
              n == Cardinality({j \in 1..Len(sorted) : sorted[j][2] >= x[2]})
          IN  SubSeq(sorted, 1, n) \o <<x>> \o SubSeq(sorted, n + 1, Len(sorted))
        by_count == Fold(insert, <<>>, 1, Len(all_rule_counts))
    IN  SubSeq(by_count, 1, Min(5, Len(by_count)))

(***************************************************************************)
(* The state: the file system, the command line, main's locals, the        *)
(* linter object, what was printed and written, and the lint_file calls    *)
(* made so far.                                                            *)
(***************************************************************************)
VARIABLES fs, args, pc, arg_idx, md_files, heap, self_issues, issues_ref,
          filtered_issues, all_results, total_issues, exit_code, console,
          json_file, calls

vars == <<fs, args, pc, arg_idx, md_files, heap, self_issues, issues_ref,
          filtered_issues, all_results, total_issues, exit_code, console,
          json_file, calls>>

exists(fsys, path) == path \in DOMAIN fsys /\ fsys[path].kind # "missing"
is_dir(fsys, path) == path \in DOMAIN fsys /\ fsys[path].kind = "dir"

\* linter = MicrosoftStyleLinter(): __init__ sets self.issues = []
InitLinter ==
    /\ heap = << <<>> >>
    /\ self_issues = 1
    /\ calls = <<>>

InitLocals ==
    /\ arg_idx = 1
    /\ md_files = <<>>
    /\ issues_ref = 0
    /\ filtered_issues = <<>>
    /\ all_results = <<>>
    /\ total_issues = 0
    /\ exit_code = 0
    /\ console = <<>>
    /\ json_file = None

\* main up to line 731, on any command line argparse accepts
Init ==
    /\ fs = FileSystem
    /\ args \in Args
    /\ pc = "path"
    /\ InitLinter
    /\ InitLocals

\* issues = linter.lint_file(filepath) has returned r, <<heap, reference>>:
\* issues_ref is main's issues, and the call is recorded in calls
Returned(filepath, r) ==
    /\ heap' = r[1]
    /\ self_issues' = r[2]
    /\ issues_ref' = r[2]
    /\ calls' = Append(calls, [filepath |-> filepath,
                               text |-> read_file(fs, filepath),
                               ref |-> r[2],
                               returned |-> r[1][r[2]]])

CallLintFile(filepath) ==
    Returned(filepath, lint_file(heap, self_issues, fs, filepath))

\* lines 733-738: the path does not exist
PathNotFound ==
    /\ pc = "path"
    /\ arg_idx <= Len(args.files)
    /\ ~ exists(fs, args.files[arg_idx])
    /\ console' = Append(console, [print |-> "not_found",
                                   filepath |-> args.files[arg_idx]])
    /\ arg_idx' = arg_idx + 1
    /\ UNCHANGED <<fs, args, pc, md_files, heap, self_issues, issues_ref,
                   filtered_issues, all_results, total_issues, exit_code,
                   json_file, calls>>

\* lines 740-741: md_files = list(path.rglob('*.md'))
ExpandDirectory ==
    /\ pc = "path"
    /\ arg_idx <= Len(args.files)
    /\ exists(fs, args.files[arg_idx])
    /\ is_dir(fs, args.files[arg_idx])
    /\ md_files' = fs[args.files[arg_idx]].rglob
    /\ IF md_files' = <<>>
       THEN arg_idx' = arg_idx + 1 /\ pc' = "path"
       ELSE arg_idx' = arg_idx /\ pc' = "lint"
    /\ UNCHANGED <<fs, args, heap, self_issues, issues_ref, filtered_issues,
                   all_results, total_issues, exit_code, console, json_file,
                   calls>>

\* lines 742-743: md_files = [path]
SingleFile ==
    /\ pc = "path"
    /\ arg_idx <= Len(args.files)
    /\ exists(fs, args.files[arg_idx])
    /\ ~ is_dir(fs, args.files[arg_idx])
    /\ md_files' = <<args.files[arg_idx]>>
    /\ pc' = "lint"
    /\ UNCHANGED <<fs, args, arg_idx, heap, self_issues, issues_ref,
                   filtered_issues, all_results, total_issues, exit_code,
                   console, json_file, calls>>

\* lines 745-785: one iteration of "for md_file in md_files"
LintFile ==
    /\ pc = "lint"
    /\ md_files # <<>>
    /\ LET md_file == Head(md_files)
           min_severity == severity_levels[args.severity]
           filtered == filter_by_severity(heap'[issues_ref'], min_severity)
           report == generate_report(filtered, md_file)
       IN  /\ CallLintFile(md_file)
           /\ filtered_issues' = filtered
           /\ all_results' = Append(all_results, report)
           /\ IF ~ args.summary
              THEN /\ console' =
                        console
                          \o <<[print |-> "file", filepath |-> md_file]>>
                          \o (IF filtered = <<>> THEN <<[print |-> "ok"]>>
                              ELSE IF args.group_by_rule
                              THEN print_by_rule(filtered, args.show_lines,
                                                 ~ args.no_color)
                              ELSE print_flat(filtered, args.show_lines,
                                              ~ args.no_color))
                   /\ exit_code' =
                        IF /\ filtered # <<>>
                           /\ \E k \in 1..Len(filtered) :
                                 filtered[k].severity = ERROR
                        THEN 1 ELSE exit_code
                   /\ total_issues' = total_issues + Len(filtered)
              ELSE UNCHANGED <<console, exit_code, total_issues>>
    /\ md_files' = Tail(md_files)
    /\ IF md_files' = <<>>
       THEN arg_idx' = arg_idx + 1 /\ pc' = "path"
       ELSE arg_idx' = arg_idx /\ pc' = "lint"
    /\ UNCHANGED <<fs, args, json_file>>

\* lines 787-830: the summary, the JSON report and sys.exit(exit_code)
Summary ==
    /\ pc = "path"
    /\ arg_idx > Len(args.files)
    /\ LET errors_of(r) == r.errors
           warnings_of(r) == r.warnings
           info_of(r) == r.info
           total_errors == sum_field(all_results, errors_of)
           total_warnings == sum_field(all_results, warnings_of)
           total_info == sum_field(all_results, info_of)
           summary == [total_files |-> Len(all_results),
                       total_issues |-> total_issues,
                       errors |-> total_errors,
                       warnings |-> total_warnings,
                       info |-> total_info]
           top == top_issues(all_results)
       IN  /\ console' =
                console
                  \o <<[print |-> "summary", summary |-> summary]>>
                  \o (IF all_results # <<>> /\ top # <<>>
                      THEN <<[print |-> "top", rules |-> top]>> ELSE <<>>)
                  \o (IF args.json # None
                      THEN <<[print |-> "json_saved", filepath |-> args.json]>>
                      ELSE <<>>)
           /\ json_file' =
                IF args.json # None
                THEN [summary |-> summary, files |-> all_results]
                ELSE json_file
    /\ pc' = "exit"
    /\ UNCHANGED <<fs, args, arg_idx, md_files, heap, self_issues, issues_ref,
                   filtered_issues, all_results, total_issues, exit_code, calls>>

Next ==
    \/ PathNotFound
    \/ ExpandDirectory
    \/ SingleFile
    \/ LintFile
    \/ Summary

Spec == Init /\ [][Next]_vars

(***************************************************************************)
(* lint_file and the severity filter on every document: one file, linted   *)
(* once by a new linter, then filtered as main filters it.                 *)
(***************************************************************************)
\* the file systems with one path: every document, an unreadable file and
\* no file at all
LintFileSystems ==
    {[p \in {DocPath} |-> File(DocText(doc))] : doc \in Docs}
      \cup {[p \in {DocPath} |->
               Unreadable("[Errno 13] Permission denied: 'doc.md'")],
            [p \in {DocPath} |-> Missing]}

LintArgs ==
    [files : {<<DocPath>>},
     severity : {"error", "warning", "info"},
     no_color : {FALSE},
     show_lines : {TRUE},
     json : {None},
     summary : {FALSE},
     group_by_rule : {FALSE}]

InitLint ==
    /\ fs \in LintFileSystems
    /\ args \in LintArgs
    /\ pc = "call"
    /\ InitLinter
    /\ InitLocals

\* line 746: issues = linter.lint_file(str(md_file))
LintDoc ==
    /\ pc = "call"
    /\ CallLintFile(args.files[1])
    /\ pc' = "filter"
    /\ UNCHANGED <<fs, args, arg_idx, md_files, filtered_issues, all_results,
                   total_issues, exit_code, console, json_file>>

\* lines 749-752: filtered_issues = [issue for issue in issues if ...]
FilterIssues ==
    /\ pc = "filter"
    /\ filtered_issues' =
         filter_by_severity(heap[issues_ref], severity_levels[args.severity])
    /\ pc' = "done"
    /\ UNCHANGED <<fs, args, arg_idx, md_files, heap, self_issues, issues_ref,
                   all_results, total_issues, exit_code, console, json_file,
                   calls>>

NextLint ==
    \/ LintDoc
    \/ FilterIssues

SpecLint == InitLint /\ [][NextLint]_vars

(***************************************************************************)
(* lint_file on one line at a time: a line of prose or a heading, alone or *)
(* after lines that open and close a code block.                           *)
(***************************************************************************)
\* the lines of prose: every rule has a line here that triggers it and one
\* that comes close
ProseLines ==
    {"![](photo.png)",
     "![a cat sleeping](photo.png)",
     "![ ](photo.png)  and ![](b.png)",
     "Please note that you can't utilize this feature.",
     "utilize it, then Utilize it again",
     "We simplyfy, e.g. this and e.g. that etc.",
     "login to the relogin page, then Login or log in",
     "the whitelist and the Whitelist, not whitelisted",
     "internet",
     "See the " \o BT \o "config.yaml" \o BT \o " file above",
     "See the Screenshot above.",
     "Look at the left barrier.",
     "Look at the left  bar.",
     "the top panel, the left side and the text below",
     "he is going to be tested and it will be logged",
     "Use 5GB or .5 of it , a, b and c",
     "click on Save, select the item and press Enter",
     "call the function foo or the method " \o BT \o "bar" \o BT,
     "refer to [http://a](http://b) or [this page](x)",
     "the red box and the blue text",
     "utilize the login, then Utilize the relogin or Login",
     "12 items  are shown",
     "- Item one",
     "- item two has more than five words here"}

\* what a heading says, before the punctuation that may end it
HeadingTitles ==
    {"Configuring The System", "Configure the system", "Overview", "String",
     "Getting Started With Azure Tools", "Install The Package", "ing it",
     "What Is New Here", "Testing Notes", "running Tests Quickly"}

\* the heading lines, with some lines that are no headings
HeadingLines ==
    {hashes \o title \o ending :
       hashes \in {"# ", "## ", "###  ", "###### ", "####### ", "#"},
       title \in HeadingTitles,
       ending \in {"", ":", ". ", "?"}}

\* every document of at most MaxLines lines that ends with its one line,
\* after fences, empty lines and list items
LineDocs(pool) ==
    {before \o <<line>> :
       before \in UNION {[1..n -> {Fence, "", "- Item one"}] :
                           n \in 0..(MaxLines - 1)},
       line \in pool}

LineFileSystems(pool) ==
    {[p \in {DocPath} |-> File(DocText(doc))] : doc \in LineDocs(pool)}

InitLines ==
    /\ fs \in LineFileSystems(ProseLines \cup HeadingLines)
                \cup {[p \in {DocPath} |->
                         Unreadable("[Errno 13] Permission denied: 'doc.md'")]}
    /\ args \in {a \in LintArgs : a.severity = "info"}
    /\ pc = "call"
    /\ InitLinter
    /\ InitLocals

NextLines ==
    \/ LintDoc
    \/ FilterIssues

SpecLines == InitLines /\ [][NextLines]_vars

(***************************************************************************)
(* lint_file on documents of up to MaxFenceLines lines that open and close *)
(* code blocks.                                                            *)
(***************************************************************************)
\* two fences, an indented line of three backticks and a line of prose
\* with a forbidden phrase
FenceLinePool == {Fence, "~~~ text", "  " \o Fence, "utilize"}

InitFences ==
    /\ fs \in {[p \in {DocPath} |-> File(DocText(doc))] :
                 doc \in UNION {[1..n -> FenceLinePool] : n \in 1..MaxFenceLines}}
    /\ args \in {a \in LintArgs : a.severity = "info"}
    /\ pc = "call"
    /\ InitLinter
    /\ InitLocals

SpecFences == InitFences /\ [][NextLines]_vars

(***************************************************************************)
(* lint_file with the calls of lines 191-208 made in another order: the    *)
(* linter is called once as it is and once more with its check functions   *)
(* reordered, on the same file.                                            *)
(***************************************************************************)
\* the check function that lint_file calls in the n-th place
check_number(n, issues, lines) ==
    CASE n = 1 -> check_forbidden_phrases(issues, lines)
      [] n = 2 -> check_contractions(issues, lines)
      [] n = 3 -> check_latin_abbreviations(issues, lines)
      [] n = 4 -> check_preferred_terminology(issues, lines)
      [] n = 5 -> check_directional_language(issues, lines)
      [] n = 6 -> check_future_tense(issues, lines)
      [] n = 7 -> check_gender_neutral(issues, lines)
      [] n = 8 -> check_voice(issues, lines)
      [] n = 9 -> check_headings_microsoft(issues, lines)
      [] n = 10 -> check_lists_microsoft(issues, lines)
      [] n = 11 -> check_capitalization(issues, lines)
      [] n = 12 -> check_punctuation(issues, lines)
      [] n = 13 -> check_numbers_and_units(issues, lines)
      [] n = 14 -> check_ui_elements(issues, lines)
      [] n = 15 -> check_code_formatting(issues, lines)
      [] n = 16 -> check_links_microsoft(issues, lines)
      [] n = 17 -> check_accessibility(issues, lines)
      [] n = 18 -> check_inclusive_language(issues, lines)

\* the order of lines 191-208
source_order == [n \in 1..18 |-> n]

\* the orders tried: that of the source, its reverse, and the source's
\* with any one check function called first
Orders ==
    {source_order, [n \in 1..18 |-> 19 - n]}
      \cup {[n \in 1..18 |-> IF n = 1 THEN m ELSE IF n <= m THEN n - 1 ELSE n] :
              m \in 2..18}

\* lines 191-211, the check functions called in the given order
lint_content_in(order, issues, content) ==
    sort_issues(Fold(LAMBDA acc, k : check_number(order[k], acc, splitlines(content)),
                     issues, 1, Len(order)))

\* lint_file(filepath) with the check functions called in the given order
lint_file_in(order, objects, self, fsys, filepath) ==
    LET fresh == new_issue_list(objects, self)
        f == read_file(fsys, filepath)
    IN  IF ~ f.ok
        THEN <<[fresh[1] EXCEPT ![fresh[2]] =
                  add_issue(@, 0, 0, ERROR, "file-read",
                            "Error reading file: " \o f.error, "", "")],
               fresh[2]>>
        ELSE <<[fresh[1] EXCEPT ![fresh[2]] = lint_content_in(order, @, f.content)],
               fresh[2]>>

InitOrder ==
    /\ fs \in LineFileSystems(ProseLines)
                \cup {[p \in {DocPath} |->
                         Unreadable("[Errno 13] Permission denied: 'doc.md'")]}
    /\ args \in {a \in LintArgs : a.severity = "info"}
    /\ pc = "call"
    /\ InitLinter
    /\ InitLocals

\* lint_file(args.files[1]) once more, the check functions in another order
LintReordered ==
    /\ pc = "filter"
    /\ \E order \in Orders :
         Returned(args.files[1],
                  lint_file_in(order, heap, self_issues, fs, args.files[1]))
    /\ pc' = "reordered"
    /\ UNCHANGED <<fs, args, arg_idx, md_files, filtered_issues, all_results,
                   total_issues, exit_code, console, json_file>>

NextOrder ==
    \/ LintDoc
    \/ LintReordered

SpecOrder == InitOrder /\ [][NextOrder]_vars

(***************************************************************************)
(* The claims about a run of main, under Spec.                             *)
(***************************************************************************)
\* C1: when main exits, the exit status is non-zero if and only if some
\* processed file has a retained (post-filter) finding of Error severity,
\* whatever the flags.  all_results holds the report of the retained
\* findings of every processed file.  Not so with --summary: line 781 sets
\* exit_code inside "if not args.summary".
C1_ExitStatusIffRetainedError ==
    pc = "exit" =>
      (exit_code # 0 <=> \E k \in 1..Len(all_results) : all_results[k].errors > 0)

\* C2: a path given to the run that does not exist produces exactly one
\* finding for that path (line 0, Error, rule file-read), and the exit
\* status is then non-zero, Error findings being retained under every
\* filter.  Not so: lines 735-738 print "File not found" and go on to the
\* next path, lint_file is not called and the path has no report.
C2_MissingPathOneFileReadFinding ==
    pc = "exit" =>
      \A n \in 1..Len(args.files) :
        ~ exists(fs, args.files[n]) =>
          /\ \E c \in 1..Len(calls) :
               /\ calls[c].filepath = args.files[n]
               /\ Len(calls[c].returned) = 1
               /\ calls[c].returned[1].line_number = 0
               /\ calls[c].returned[1].severity = ERROR
               /\ calls[c].returned[1].rule = "file-read"
          /\ \E k \in 1..Len(all_results) :
               /\ all_results[k].filepath = args.files[n]
               /\ all_results[k].total_issues = 1
               /\ all_results[k].errors = 1
          /\ exit_code # 0

\* C3: when main exits, the summary's total_issues is the number of
\* retained findings over all processed files, which is the summary's
\* errors + warnings + info, whatever the flags; and in the JSON output
\* summary.total_issues is the sum of the per-file total_issues.  Not so
\* with --summary: line 785 adds to total_issues inside
\* "if not args.summary".
C3_TotalIssuesIsSumOfRetained ==
    pc = "exit" =>
      LET printed == CHOOSE k \in 1..Len(console) : console[k].print = "summary"
          summary == console[printed].summary
      IN  /\ summary.total_issues =
               sum_field(all_results, LAMBDA r : r.total_issues)
          /\ summary.total_issues =
               summary.errors + summary.warnings + summary.info
          /\ args.json # None =>
               json_file.summary.total_issues =
                 sum_field(json_file.files, LAMBDA r : r.total_issues)

(***************************************************************************)
(* The claims about lint_file and the severity filter, under SpecLint.     *)
(* After LintDoc, heap[issues_ref] is the list lint_file returned and      *)
(* calls[1].text what open() gave.                                         *)
(***************************************************************************)
\* C4: on a line for which is_in_code_block is true, no check other than
\* the accessibility checks and the heading and list checks emits a
\* finding; in particular the link checks emit none.  Not so:
\* check_links_microsoft (lines 562-585) does not call is_in_code_block.
C4_OnlyStructuralChecksInCodeBlocks ==
    pc # "call" /\ calls[1].text.ok =>
      LET lines == splitlines(calls[1].text.content)
          issues == heap[issues_ref]
      IN  \A k \in 1..Len(issues) :
            is_in_code_block(lines, issues[k].line_number - 1) =>
              issues[k].rule \in
                {"ms-alt-text", "ms-color-only", "ms-heading-case",
                 "ms-heading-punctuation", "ms-heading-gerund",
                 "ms-list-parallel", "ms-list-punctuation"}

\* C5: is_in_code_block takes a line for a fence exactly when the line,
\* its leading white space ignored, begins with three backticks or three
\* tildes, so a line is in a code block exactly when the number of such
\* lines before it is odd, indented or not.  Not so: re.match(r'^```|^~~~')
\* at line 231 matches at the first character of the line only.
C5_IndentedFenceToggles ==
    pc # "call" /\ calls[1].text.ok =>
      LET lines == splitlines(calls[1].text.content)
          fence(i) == \/ startswith(lstrip(lines[i]), BT \o BT \o BT)
                      \/ startswith(lstrip(lines[i]), "~~~")
      IN  \A n \in 0..(Len(lines) - 1) :
            is_in_code_block(lines, n)
              <=> Cardinality({i \in 1..n : fence(i)}) % 2 = 1

\* C6: the sequence lint_file returns is ordered: of two adjacent findings
\* the second has the greater line_number, or the same line_number and a
\* column that is not less; and so is the sequence the severity filter
\* makes of it.
C6_ReturnedOrderedByLineThenColumn ==
    LET ordered(seq) ==
          \A k \in 1..(Len(seq) - 1) :
            \/ seq[k].line_number < seq[k + 1].line_number
            \/ /\ seq[k].line_number = seq[k + 1].line_number
               /\ seq[k].column <= seq[k + 1].column
    IN  /\ pc # "call" => ordered(heap[issues_ref]) /\ ordered(calls[1].returned)
        /\ pc = "done" => ordered(filtered_issues)

\* C6 at work: the filter has kept the ms-alt-text finding of a line right
\* before the ms-forbidden-phrase finding of the same line, which
\* check_forbidden_phrases had added long before check_accessibility added
\* the other.
C6_Witness ==
    /\ pc = "done"
    /\ \E k \in 1..(Len(filtered_issues) - 1) :
         /\ filtered_issues[k].rule = "ms-alt-text"
         /\ filtered_issues[k + 1].rule = "ms-forbidden-phrase"
         /\ filtered_issues[k].line_number = filtered_issues[k + 1].line_number
         /\ filtered_issues[k].column < filtered_issues[k + 1].column
    /\ \E k \in 1..Len(filtered_issues) : filtered_issues[k].line_number = 2

\* C7: the column of every finding is an offset into its line: it is not
\* negative and, when the line is not empty, it is less than the length of
\* the line; the ms-link-see finding included.  Not so: line 583 gives that
\* finding the column match.start() - 10.
C7_ColumnWithinLine ==
    pc # "call" =>
      \A k \in 1..Len(heap[issues_ref]) :
        LET issue == heap[issues_ref][k]
        IN  /\ issue.column >= 0
            /\ issue.line_content # "" => issue.column < Len(issue.line_content)

\* C8: every finding lint_file returns has line_number >= 0; line_number 0
\* is that of the file-read finding only, whose line_content is empty;
\* every other finding has a line_number from 1 to the number of lines and
\* for line_content the source line at that number, unchanged.
C8_LineNumberAndContent ==
    pc # "call" =>
      \A k \in 1..Len(heap[issues_ref]) :
        LET issue == heap[issues_ref][k]
        IN  /\ issue.line_number >= 0
            /\ issue.line_number = 0 =>
                 /\ issue.rule = "file-read"
                 /\ issue.line_content = ""
                 /\ ~ calls[1].text.ok
            /\ issue.line_number # 0 =>
                 /\ issue.rule # "file-read"
                 /\ calls[1].text.ok
                 /\ issue.line_number \in
                      1..Len(splitlines(calls[1].text.content))
                 /\ issue.line_content =
                      splitlines(calls[1].text.content)[issue.line_number]

\* C8 at work: lint_file has returned findings on the first and on the last
\* line of a file of MaxLines lines that differ, each with its own line.
C8_Witness ==
    /\ pc = "filter"
    /\ calls[1].text.ok
    /\ LET lines == splitlines(calls[1].text.content)
           issues == heap[issues_ref]
       IN  /\ Len(lines) = MaxLines
           /\ lines[1] # lines[Len(lines)]
           /\ \E k \in 1..Len(issues) :
                issues[k].line_number = 1 /\ issues[k].line_content = lines[1]
           /\ \E k \in 1..Len(issues) :
                /\ issues[k].line_number = Len(lines)
                /\ issues[k].line_content = lines[Len(lines)]

\* C9: of one finding list, what the filter retains with minimum severity
\* error is among what it retains with warning, which is among what it
\* retains with info; info retains every finding and error exactly the
\* findings of Error severity.  filtered_issues is what main retained with
\* args.severity.
C9_FilterMonotone ==
    pc = "done" =>
      LET issues == heap[issues_ref]
          retained(min) == filter_by_severity(issues, severity_levels[min])
          members(seq) == {seq[k] : k \in 1..Len(seq)}
          is_error(issue) == issue.severity = ERROR
      IN  /\ members(retained("error")) \subseteq members(retained("warning"))
          /\ members(retained("warning")) \subseteq members(retained("info"))
          /\ retained("info") = issues
          /\ retained("error") = SelectSeq(issues, is_error)
          /\ filtered_issues = retained(args.severity)

\* C9 at work: the list has findings of all three severities and main, with
\* --severity warning, has retained some but not all of them, and not the
\* Error findings only.
C9_Witness ==
    /\ pc = "done"
    /\ args.severity = "warning"
    /\ \A severity \in {ERROR, WARNING, INFO} :
         \E k \in 1..Len(heap[issues_ref]) :
           heap[issues_ref][k].severity = severity
    /\ Len(filtered_issues) < Len(heap[issues_ref])
    /\ \E k \in 1..Len(filtered_issues) : filtered_issues[k].severity = WARNING
    /\ \E k \in 1..Len(filtered_issues) : filtered_issues[k].severity = ERROR

(***************************************************************************)
(* The claim about the calls of lint_file on one linter, under Spec.       *)
(***************************************************************************)
\* C10: two calls of lint_file on files of the same content return the
\* same sequence of findings, also on one linter with other files linted
\* in between; every call starts from an empty list, so a result holds
\* findings of its own file only, and a list that was returned is the same
\* after the later calls.  calls is the history of the calls, heap[c.ref]
\* the list that call c returned as it is now.
C10_LintFileRepeatable ==
    \A a \in 1..Len(calls) :
      /\ \A b \in 1..Len(calls) :
           calls[a].text = calls[b].text =>
             calls[a].returned = calls[b].returned
      /\ heap[calls[a].ref] = calls[a].returned
      /\ \A k \in 1..Len(calls[a].returned) :
           LET issue == calls[a].returned[k]
           IN  IF calls[a].text.ok
               THEN /\ issue.line_number \in
                         1..Len(splitlines(calls[a].text.content))
                    /\ issue.line_content =
                         splitlines(calls[a].text.content)[issue.line_number]
               ELSE Len(calls[a].returned) = 1 /\ issue.rule = "file-read"

\* C10 at work: main has linted img.md, docs/a.md and docs/b.md with its
\* one linter; the first and the third have the same content and the same
\* findings, the second has other content and other findings, and the list
\* returned first is still what it was.
C10_Witness ==
    /\ Len(calls) = 3
    /\ calls[1].text = calls[3].text
    /\ calls[1].text # calls[2].text
    /\ calls[1].returned = calls[3].returned
    /\ calls[1].returned # <<>>
    /\ calls[2].returned # <<>>
    /\ calls[2].returned # calls[1].returned
    /\ calls[1].ref # calls[3].ref
    /\ heap[calls[1].ref] = calls[1].returned

(***************************************************************************)
(* More claims about a run of main, under Spec.                            *)
(***************************************************************************)
\* C11: when open() or read() fails in lint_file, the call returns exactly
\* one finding: line 0, column 0, Error, rule file-read, a message that
\* ends with the text of the error, no line content; no check has added a
\* finding; and the run goes on: when main exits, lint_file has been called
\* for every file of every path that exists, in order, the ones after the
\* unreadable file too, and every call has its report.
C11_ReadFailureIsOneFinding ==
    /\ \A c \in 1..Len(calls) :
         ~ calls[c].text.ok =>
           /\ Len(calls[c].returned) = 1
           /\ calls[c].returned[1].line_number = 0
           /\ calls[c].returned[1].column = 0
           /\ calls[c].returned[1].severity = ERROR
           /\ calls[c].returned[1].rule = "file-read"
           /\ calls[c].text.error # ""
           /\ endswith(calls[c].returned[1].message, calls[c].text.error)
           /\ calls[c].returned[1].line_content = ""
    /\ pc = "exit" =>
         LET files_of(n) ==
               IF ~ exists(fs, args.files[n]) THEN <<>>
               ELSE IF is_dir(fs, args.files[n]) THEN fs[args.files[n]].rglob
               ELSE <<args.files[n]>>
             files == FlatMap(files_of, 1, Len(args.files))
         IN  /\ Len(calls) = Len(files)
             /\ Len(all_results) = Len(files)
             /\ \A k \in 1..Len(files) :
                  /\ calls[k].filepath = files[k]
                  /\ all_results[k].filepath = files[k]
                  /\ all_results[k].total_issues <= Len(calls[k].returned)

\* C11 at work: main has exited after linting locked.md, which cannot be
\* read, and then a file that has findings of its own.
C11_Witness ==
    /\ pc = "exit"
    /\ Len(calls) = 2
    /\ ~ calls[1].text.ok
    /\ calls[1].returned[1].rule = "file-read"
    /\ calls[2].text.ok
    /\ calls[2].returned # <<>>
    /\ all_results[2].total_issues > 0

(***************************************************************************)
(* The claims about the findings of single lines, under SpecLines.         *)
(***************************************************************************)
\* C12: in every list lint_file returns, a finding has Error severity only
\* if its rule is ms-alt-text or file-read; the findings of every other
\* rule have Warning or Info severity.
C12_ErrorOnlyAltTextAndFileRead ==
    pc # "call" =>
      \A k \in 1..Len(heap[issues_ref]) :
        LET issue == heap[issues_ref][k]
        IN  /\ issue.severity \in {ERROR, WARNING, INFO}
            /\ issue.severity = ERROR => issue.rule \in {"ms-alt-text", "file-read"}
            /\ issue.rule \notin {"ms-alt-text", "file-read"} =>
                 issue.severity \in {WARNING, INFO}

\* C12 at work: lint_file has returned an ms-alt-text Error together with
\* a Warning and an Info of other rules.
C12_Witness ==
    /\ pc = "filter"
    /\ \E k \in 1..Len(heap[issues_ref]) :
         /\ heap[issues_ref][k].rule = "ms-alt-text"
         /\ heap[issues_ref][k].severity = ERROR
    /\ \E k \in 1..Len(heap[issues_ref]) :
         /\ heap[issues_ref][k].rule = "ms-space-before-punct"
         /\ heap[issues_ref][k].severity = WARNING
    /\ \E k \in 1..Len(heap[issues_ref]) :
         /\ heap[issues_ref][k].rule = "ms-double-space"
         /\ heap[issues_ref][k].severity = INFO

\* C13: a file whose only line is "![](photo.png)" yields exactly one
\* finding, an Error of rule ms-alt-text, and a file whose only line is
\* "![a cat sleeping](photo.png)" yields none; on every line, in a code
\* block or not, each image whose alt text is empty or white space yields
\* one ms-alt-text Error whose column is the offset of the image's "!",
\* and there is no other ms-alt-text finding.
C13_EmptyAltTextIsOneError ==
    pc # "call" /\ calls[1].text.ok =>
      LET lines == splitlines(calls[1].text.content)
          issues == heap[issues_ref]
          image_at(line, p) ==
            /\ slice(line, p, p + 2) = "!["
            /\ \E a \in (p + 2)..Len(line) :
                 /\ \A q \in (p + 2)..(a - 1) : ch(line, q) \in SpaceSet
                 /\ slice(line, a, a + 2) = "]("
                 /\ \E r \in (a + 3)..(Len(line) - 1) :
                      /\ \A q \in (a + 2)..(r - 1) : ch(line, q) # ")"
                      /\ ch(line, r) = ")"
          alt_text(i) == {k \in 1..Len(issues) : /\ issues[k].rule = "ms-alt-text"
                                                 /\ issues[k].line_number = i}
      IN  /\ lines = <<"![](photo.png)">> =>
            /\ Len(issues) = 1
            /\ issues[1].severity = ERROR
            /\ issues[1].rule = "ms-alt-text"
          /\ lines = <<"![a cat sleeping](photo.png)">> => issues = <<>>
          /\ \A i \in 1..Len(lines) :
               /\ \A p \in 0..(Len(lines[i]) - 1) :
                    Cardinality({k \in alt_text(i) : issues[k].column = p})
                      = IF image_at(lines[i], p) THEN 1 ELSE 0
               /\ \A k \in alt_text(i) :
                    /\ issues[k].severity = ERROR
                    /\ issues[k].column \in 0..(Len(lines[i]) - 1)

\* C13 at work: lint_file has returned the ms-alt-text Errors of the two
\* images of a line in a code block, one with a blank for alt text at
\* offset 0 and one with none at offset 21.
C13_Witness ==
    /\ pc = "filter"
    /\ calls[1].text.ok
    /\ LET lines == splitlines(calls[1].text.content)
           issues == heap[issues_ref]
       IN  /\ Len(lines) = 2
           /\ is_in_code_block(lines, 1)
           /\ lines[2] = "![ ](photo.png)  and ![](b.png)"
           /\ \E k \in 1..Len(issues) :
                /\ issues[k].rule = "ms-alt-text"
                /\ issues[k].line_number = 2
                /\ issues[k].column = 0
           /\ \E k \in 1..Len(issues) :
                /\ issues[k].rule = "ms-alt-text"
                /\ issues[k].line_number = 2
                /\ issues[k].column = 21

\* The scenario of the line "Please note that you can't utilize this
\* feature.": where the line is not in a code block, lint_file returns a
\* forbidden-phrase finding for "please note" with the given suggestion,
\* a contraction finding for "can't" with suggestion "Use: cannot" and a
\* forbidden-phrase finding for "utilize" with suggestion "Replace with:
\* use"; where it is in a code block, lint_file returns no forbidden-phrase
\* and no contraction finding for it.
please_note_scenario(suggestion) ==
    pc # "call" /\ calls[1].text.ok =>
      LET lines == splitlines(calls[1].text.content)
          issues == heap[issues_ref]
          finding(i, rule, message, suggested) ==
            \E k \in 1..Len(issues) :
              /\ issues[k].line_number = i
              /\ issues[k].rule = rule
              /\ issues[k].message = message
              /\ issues[k].suggestion = suggested
      IN  \A i \in 1..Len(lines) :
            lines[i] = "Please note that you can't utilize this feature." =>
              IF is_in_code_block(lines, i - 1)
              THEN \A k \in 1..Len(issues) :
                     issues[k].line_number = i =>
                       issues[k].rule \notin {"ms-forbidden-phrase", "ms-contraction"}
              ELSE /\ Cardinality({k \in 1..Len(issues) : issues[k].line_number = i})
                        >= 3
                   /\ finding(i, "ms-forbidden-phrase", "Avoid 'please note'",
                              suggestion)
                   /\ finding(i, "ms-contraction",
                              "Avoid contractions in technical documentation: 'can't'",
                              "Use: cannot")
                   /\ finding(i, "ms-forbidden-phrase", "Avoid 'utilize'",
                              "Replace with: use")

\* C14 as the claim has it: the suggestion of the "please note" finding is
\* "Note:".  Not so: line 245 of the source builds the suggestion of every
\* forbidden phrase that has a replacement as "Replace with: " and the
\* replacement.
C14_SuggestionIsNote == please_note_scenario("Note:")

\* C14, amended: the line "Please note that you can't utilize this
\* feature." outside any code block yields at least three findings: a
\* forbidden-phrase finding for "please note" with suggestion "Replace
\* with: Note:", a contraction finding for "can't" with suggestion "Use:
\* cannot" and a forbidden-phrase finding for "utilize" with suggestion
\* "Replace with: use"; the same line in a code block yields none of them.
C14_PleaseNoteScenario == please_note_scenario("Replace with: Note:")

\* C14 at work: lint_file has returned the three findings for the line as
\* the second line of a file, after an empty line.
C14_Witness ==
    /\ pc = "filter"
    /\ calls[1].text.ok
    /\ splitlines(calls[1].text.content)
         = <<"", "Please note that you can't utilize this feature.">>
    /\ \E k \in 1..Len(heap[issues_ref]) :
         /\ heap[issues_ref][k].line_number = 2
         /\ heap[issues_ref][k].message = "Avoid 'please note'"
         /\ heap[issues_ref][k].column = 0
    /\ \E k \in 1..Len(heap[issues_ref]) :
         /\ heap[issues_ref][k].line_number = 2
         /\ heap[issues_ref][k].rule = "ms-contraction"
         /\ heap[issues_ref][k].column = 21
    /\ \E k \in 1..Len(heap[issues_ref]) :
         /\ heap[issues_ref][k].line_number = 2
         /\ heap[issues_ref][k].message = "Avoid 'utilize'"
         /\ heap[issues_ref][k].column = 27

\* C15: for every heading line, which is 1 to 6 '#' characters, white
\* space and then text, the title being the text without the white space
\* around it: an ms-heading-punctuation finding is emitted if and only if
\* the title ends with one of . ! ? :, an ms-heading-gerund finding if and
\* only if the first word of the title ends in "ing" in any letter case,
\* and an ms-heading-case finding if and only if more than half of the
\* words after the first start with an uppercase letter and are longer
\* than 3 characters; "## Configuring The System:" yields the first two.
C15_HeadingFindings ==
    pc # "call" /\ calls[1].text.ok =>
      LET lines == splitlines(calls[1].text.content)
          issues == heap[issues_ref]
          level(line) == CHOOSE h \in 0..Len(line) :
                           /\ (\A q \in 0..(h - 1) : ch(line, q) = "#")
                           /\ ch(line, h) # "#"
          title(line) == strip(slice(line, level(line), Len(line)))
          heading(line) == /\ level(line) \in 1..6
                           /\ ch(line, level(line)) \in SpaceSet
                           /\ title(line) # ""
          emitted(i, rule) == Cardinality({k \in 1..Len(issues) :
                                             /\ issues[k].line_number = i
                                             /\ issues[k].rule = rule})
          yes_or_no(condition) == IF condition THEN 1 ELSE 0
          qualifying(words) == Cardinality({k \in 2..Len(words) :
                                              /\ ch(words[k], 0) \in UpperSet
                                              /\ Len(words[k]) > 3})
      IN  \A i \in 1..Len(lines) :
            /\ heading(lines[i]) =>
                 /\ emitted(i, "ms-heading-punctuation")
                      = yes_or_no(ch(title(lines[i]), Len(title(lines[i])) - 1)
                                    \in {".", "!", "?", ":"})
                 /\ emitted(i, "ms-heading-gerund")
                      = yes_or_no(endswith(lower(split(title(lines[i]))[1]), "ing"))
                 /\ emitted(i, "ms-heading-case")
                      = yes_or_no(2 * qualifying(split(title(lines[i])))
                                    > Len(split(title(lines[i]))) - 1)
            /\ lines[i] = "## Configuring The System:" =>
                 /\ emitted(i, "ms-heading-punctuation") = 1
                 /\ emitted(i, "ms-heading-gerund") = 1

\* C15 at work: lint_file has returned the ms-heading-punctuation finding
\* and the ms-heading-gerund finding of "## Configuring The System:", and
\* no ms-heading-case finding, one of the two words after the first being
\* not more than half of them.
C15_Witness ==
    /\ pc = "filter"
    /\ calls[1].text.ok
    /\ splitlines(calls[1].text.content) = <<"## Configuring The System:">>
    /\ \E k \in 1..Len(heap[issues_ref]) :
         /\ heap[issues_ref][k].rule = "ms-heading-punctuation"
         /\ heap[issues_ref][k].column = 25
    /\ \E k \in 1..Len(heap[issues_ref]) :
         /\ heap[issues_ref][k].rule = "ms-heading-gerund"
         /\ heap[issues_ref][k].message
              = "Consider using imperative or noun form instead of gerund: 'Configuring'"
    /\ \A k \in 1..Len(heap[issues_ref]) :
         heap[issues_ref][k].rule # "ms-heading-case"

(***************************************************************************)
(* The claim about the order of the check functions, under SpecOrder:      *)
(* calls[1] is lint_file as it is and calls[2] lint_file with the check    *)
(* functions in another order, on the same file.                           *)
(***************************************************************************)
\* C16: the sequence of findings that lint_file returns, after its sort,
\* is the same for every order in which the check functions are called.
\* Not so: the sort of line 211 is stable and its key is (line_number,
\* column), so two findings of different check functions at one line and
\* column stay in the order the check functions were called in.
C16_CheckOrderInsensitive ==
    pc = "reordered" => calls[2].returned = calls[1].returned

(***************************************************************************)
(* The claim about is_in_code_block, under SpecFences.                     *)
(***************************************************************************)
\* C17: for every index k of a line, is_in_code_block(lines, k) is false
\* if and only if the number of fence lines among lines[0..k-1] is even,
\* the line at k not counted; a single forward pass that keeps a running
\* toggle and records it for every line gives the same result for every
\* k, and lint_file skips in check_forbidden_phrases exactly the lines
\* that the pass records as inside a code block.  A fence line is a line
\* that begins with three backticks or three tildes, as in line 231.
C17_ToggleParityAndForwardPass ==
    pc # "call" /\ calls[1].text.ok =>
      LET lines == splitlines(calls[1].text.content)
          issues == heap[issues_ref]
          fence_marker(i) == slice(lines[i], 0, 3) \in {BT \o BT \o BT, "~~~"}
          toggle_count(k) == Cardinality({i \in 1..k : fence_marker(i)})
          inside[n \in 0..Len(lines)] ==
            IF n = 0 THEN FALSE
            ELSE IF fence_marker(n) THEN ~ inside[n - 1] ELSE inside[n - 1]
          reported(i) == \E j \in 1..Len(issues) :
                           /\ issues[j].line_number = i
                           /\ issues[j].rule = "ms-forbidden-phrase"
      IN  \A k \in 0..(Len(lines) - 1) :
            /\ (~ is_in_code_block(lines, k)) <=> (toggle_count(k) % 2 = 0)
            /\ inside[k] = is_in_code_block(lines, k)
            /\ reported(k + 1) <=> (lines[k + 1] = "utilize" /\ ~ inside[k])

\* C17 at work: of two lines "utilize", lint_file has skipped the one after
\* one fence and reported the one after two fences.
C17_Witness ==
    /\ pc = "filter"
    /\ calls[1].text.ok
    /\ splitlines(calls[1].text.content) = <<Fence, "utilize", "~~~ text", "utilize">>
    /\ is_in_code_block(splitlines(calls[1].text.content), 1)
    /\ ~ is_in_code_block(splitlines(calls[1].text.content), 3)
    /\ Len(heap[issues_ref]) = 1
    /\ heap[issues_ref][1].line_number = 4
    /\ heap[issues_ref][1].rule = "ms-forbidden-phrase"

(***************************************************************************)
(* More claims about the findings of single lines, under SpecLines.        *)
(***************************************************************************)
\* C18: on every line that is not in a code block, check_forbidden_phrases
\* and check_latin_abbreviations emit for every trigger of their tables
\* one finding if the trigger occurs in the lowercased line and none if it
\* does not, however often it occurs, and the column of the finding is the
\* offset of the first occurrence; check_preferred_terminology and
\* check_inclusive_language emit for every trigger one finding per
\* occurrence that has a word boundary at both ends, in any letter case,
\* and the column of the finding is the offset of that occurrence.  The
\* findings are those of the list that lint_file has just returned.
C18_FirstOccurrenceOrEveryOccurrence ==
    pc = "filter" /\ calls[1].text.ok =>
      LET lines == splitlines(calls[1].text.content)
          issues == heap[issues_ref]
          \* the offsets at which the trigger stands in the lowercased line
          offsets(line_lower, trigger) ==
            {p \in 0..(Len(line_lower) - Len(trigger)) :
               SubSeq(line_lower, p + 1, p + Len(trigger)) = trigger}
          boundary(line, p) ==
            (ch(line, p - 1) \in WordSet) # (ch(line, p) \in WordSet)
          first_only(i, rule, message, occurrences) ==
            LET found == {j \in 1..Len(issues) : /\ issues[j].line_number = i
                                                 /\ issues[j].rule = rule
                                                 /\ issues[j].message = message}
            IN  IF occurrences = {}
                THEN found = {}
                ELSE /\ Cardinality(found) = 1
                     /\ \A j \in found :
                          /\ issues[j].column \in occurrences
                          /\ \A q \in occurrences : issues[j].column <= q
          every_occurrence(i, rule, prefix, trigger, occurrences) ==
            LET words == {p \in occurrences :
                            /\ boundary(lines[i], p)
                            /\ boundary(lines[i], p + Len(trigger))}
                found == {j \in 1..Len(issues) :
                            /\ issues[j].line_number = i
                            /\ issues[j].rule = rule
                            /\ \E p \in occurrences :
                                 issues[j].message
                                   = prefix \o slice(lines[i], p, p + Len(trigger))
                                       \o "'"}
            IN  /\ Cardinality(found) = Cardinality(words)
                /\ {issues[j].column : j \in found} = words
      IN  \A i \in 1..Len(lines) :
            ~ is_in_code_block(lines, i - 1) =>
              \A line_lower \in {lower(lines[i])} :
                /\ \A n \in 1..Len(forbidden_phrases) :
                     \A occurrences \in {offsets(line_lower, forbidden_phrases[n][1])} :
                       first_only(i, "ms-forbidden-phrase",
                                  "Avoid '" \o forbidden_phrases[n][1] \o "'",
                                  occurrences)
                /\ \A n \in 1..Len(latin_abbrev) :
                     \A occurrences \in {offsets(line_lower, latin_abbrev[n][1])} :
                       first_only(i, "ms-latin-abbrev",
                                  "Avoid Latin abbreviation '" \o latin_abbrev[n][1]
                                     \o "'",
                                  occurrences)
                /\ \A n \in 1..Len(preferred_terms) :
                     \A occurrences \in {offsets(line_lower, preferred_terms[n][1])} :
                       every_occurrence(i, "ms-preferred-term",
                                        "Microsoft prefers '" \o preferred_terms[n][2]
                                           \o "' over '",
                                        preferred_terms[n][1], occurrences)
                /\ \A n \in 1..Len(problematic_terms) :
                     \A occurrences \in {offsets(line_lower, problematic_terms[n][1])} :
                       every_occurrence(i, "ms-inclusive",
                                        "Use inclusive language: avoid '",
                                        problematic_terms[n][1], occurrences)

\* C18 at work: of a line with "utilize" at offsets 0 and 24 and "login"
\* as a word at offsets 12 and 47 and inside "relogin", lint_file has
\* returned one ms-forbidden-phrase finding, at column 0, and two
\* ms-preferred-term findings, at columns 12 and 47.
C18_Witness ==
    /\ pc = "filter"
    /\ calls[1].text.ok
    /\ splitlines(calls[1].text.content)
         = <<"utilize the login, then Utilize the relogin or Login">>
    /\ LET issues == heap[issues_ref]
       IN  /\ {issues[k].column : k \in {j \in 1..Len(issues) :
                                           issues[j].rule = "ms-forbidden-phrase"}}
                = {0}
           /\ Cardinality({j \in 1..Len(issues) :
                             issues[j].rule = "ms-forbidden-phrase"}) = 1
           /\ {issues[k].column : k \in {j \in 1..Len(issues) :
                                           issues[j].rule = "ms-preferred-term"}}
                = {12, 47}
           /\ Cardinality({j \in 1..Len(issues) :
                             issues[j].rule = "ms-preferred-term"}) = 2

\* C19: on a line that contains a backtick, or "screenshot" in any letter
\* case, check_directional_language emits no finding; on every other line
\* that is not in a code block, every directional word is flagged unless
\* white space and one of the words menu, bar, corner, section and panel
\* follow it.  Not so: the lookahead of line 306 ends without a word
\* boundary, so a directional word is not flagged either when white space
\* and a longer word that begins with one of the five follow it.
C19_DirectionalUnlessReferent ==
    pc = "filter" /\ calls[1].text.ok =>
      LET lines == splitlines(calls[1].text.content)
          issues == heap[issues_ref]
          word(line_lower, p, w) ==
            /\ slice(line_lower, p, p + Len(w)) = w
            /\ (ch(line_lower, p - 1) \in WordSet) # (ch(line_lower, p) \in WordSet)
            /\ (ch(line_lower, p + Len(w) - 1) \in WordSet)
                 # (ch(line_lower, p + Len(w)) \in WordSet)
          referent_follows(line_lower, e) ==
            \E q \in (e + 1)..Len(line_lower) :
              /\ \A r \in e..(q - 1) : ch(line_lower, r) \in SpaceSet
              /\ \E noun \in {"menu", "bar", "corner", "section", "panel"} :
                   word(line_lower, q, noun)
          flagged(i, p) == \E k \in 1..Len(issues) :
                             /\ issues[k].line_number = i
                             /\ issues[k].rule = "ms-directional"
                             /\ issues[k].column = p
      IN  \A i \in 1..Len(lines) :
            ~ is_in_code_block(lines, i - 1) =>
              \A line_lower \in {lower(lines[i])} :
                IF \/ \E p \in 0..(Len(lines[i]) - 1) : ch(lines[i], p) = BT
                   \/ \E p \in 0..(Len(lines[i]) - 1) :
                        slice(line_lower, p, p + 10) = "screenshot"
                THEN \A k \in 1..Len(issues) :
                       issues[k].line_number = i => issues[k].rule # "ms-directional"
                ELSE \A p \in 0..(Len(lines[i]) - 1) :
                       flagged(i, p)
                         <=> \E n \in 1..Len(directional_alternatives) :
                               /\ word(line_lower, p, directional_alternatives[n])
                               /\ ~ referent_follows(line_lower,
                                      p + Len(directional_alternatives[n]))

====
